---- MODULE Spec2Model ----
(***************************************************************************)
(* A model of gemini-openai-proxy's translation engine.                    *)
(*                                                                         *)
(* Several specifications share the module:                                *)
(*   Spec / FairSpec  one streaming chat request: the backend iterator,    *)
(*                    the producer goroutine handleStreamIter, the         *)
(*                    unbuffered channel dataChan and the HTTP write path  *)
(*                    (the c.Stream callback of ChatProxyHandler);         *)
(*   ReqSpec          one chat request through ChatProxyHandler, up to the *)
(*                    answer or the start of the stream: model resolution, *)
(*                    message conversion, the backend call, error mapper;  *)
(*   InitSpec         concurrent requests racing through InitGeminiModels  *)
(*                    (sync.Once) and on into ChatProxyHandler;            *)
(*   MapSpec          handleGenerateContentError applied to one error and  *)
(*                    then to the body it answered;                        *)
(*   BuildSpec        setGenaiModelByOpenaiRequest applied to one request. *)
(*                                                                         *)
(* Text is modelled as a string over an alphabet in which every character  *)
(* the backend produces is distinct: character n is the n-th character of  *)
(* the backend's output.  A string is kept run-length encoded, as the      *)
(* sequence of its maximal runs [lo, hi) of consecutive characters, so     *)
(* that equal strings have equal encodings and a lost, repeated or         *)
(* reordered character changes the value.                                  *)
(***************************************************************************)
EXTENDS Integers, Sequences, FiniteSets, TLC

VARIABLES
    \* ---- the backend iterator (genai.GenerateContentResponseIterator)
    nIncr,        \* increments returned by iter.Next so far
    nextChar,     \* label of the next character the backend will produce
    nextFc,       \* id of the next function call the backend will produce
    backendResps, \* the responses iter.Next has returned, in order
    iterEnd,      \* how the iterator ended: "", "done", or the error kind
    \* ---- handleStreamIter (the producer goroutine)
    pc,           \* "next", "part", "chars", "send", "finish", "finishChunk", "exit", "done"
    genaiResp,    \* the increment being processed
    ci,           \* index of the candidate being processed
    pi,           \* index of the part being processed
    ix,           \* index i of the character loop
    textBuffer,
    charCount,
    pending,      \* the value of the send the producer is executing
    after,        \* where the producer continues once the send completes
    \* ---- dataChan
    closed,       \* close(dataChan) has run
    nCloses,      \* how many times close(dataChan) has run
    sent,         \* the chunks whose send completed, in order
    \* ---- the HTTP write path (c.Stream) and the client
    cpc,          \* the position of c.Stream: "select", "recv", "render", "returned"
    data,         \* the chunk received and not yet rendered
    written,      \* frames rendered, in order
    clientGone,   \* the client connection closed (CloseNotify fired)
    ctxCancelled, \* the request context is cancelled
    \* ---- process-wide configuration and the discovered-model cache
    USE_MODEL_MAPPING,
    visionEnv,    \* the value of the environment variable GPT_4_VISION_PREVIEW
    GeminiModels,
    \* ---- one pass through ChatProxyHandler
    rpc,          \* "auth", "bind", "convert", "resolve", "generate", "responded", "streaming"
    req,          \* the bound ChatCompletionRequest
    messages,     \* the result of req.ToGenaiMessages()
    genaiModel,   \* the result of req.ToGenaiModel()
    history,      \* cs.History as setGenaiChatHistory leaves it
    turnsSent,    \* the turns handed to the backend: history, then the live prompt
    backendErr,   \* the error of cs.SendMessage, or NoError
    backendResp,  \* the response of cs.SendMessage, when it returned one
    response,     \* the HTTP response written
    \* ---- the backend model as setGenaiModelByOpenaiRequest configures it
    tools,        \* req.Tools
    toolChoice,   \* req.ToolChoice
    modelTools,   \* model.Tools
    modelToolConfig, \* model.ToolConfig
    \* ---- InitGeminiModels (sync.Once) under concurrent requests
    onceDone,     \* geminiModelsOnce's done flag
    onceM,        \* the holder of geminiModelsOnce's mutex, 0 when free
    fetchCount,   \* calls of FetchGeminiModels
    fetchResult,  \* the result of the fetch in progress
    writeCount,   \* writes of GeminiModels
    hpc,          \* per request: its position in the handler
    initErr,      \* per request: the error InitGeminiModels returned
    \* ---- geminiModelsLock and one request through EmbeddingProxyHandler
    modelsLock,   \* 0 when free, p when request p holds Lock, -1 when RLock is held
    epc,          \* the embedding request's position in the handler
    embedReq,     \* the model name of the embedding request
    lenSeen,      \* what len(GeminiModels) gave IsValidGeminiModel
    embedModel,   \* the result of EmbeddingRequest.ToGenaiModel
    racyReads     \* the handlers that read GeminiModels, no lock held, during its write

streamVars == <<nIncr, nextChar, nextFc, backendResps, iterEnd, pc, genaiResp, ci, pi, ix,
                textBuffer, charCount, pending, after, closed, nCloses, sent,
                cpc, data, written, clientGone, ctxCancelled>>

configVars == <<USE_MODEL_MAPPING, visionEnv, GeminiModels>>

buildVars == <<tools, toolChoice, modelTools, modelToolConfig>>

reqVars == <<rpc, req, messages, genaiModel, history, turnsSent, backendErr, backendResp,
            response, buildVars>>

embedVars == <<modelsLock, epc, embedReq, lenSeen, embedModel, racyReads>>

onceVars == <<onceDone, onceM, fetchCount, fetchResult, writeCount, hpc, initErr, embedVars>>

vars == <<streamVars, configVars, reqVars, onceVars>>

--------------------------------------------------------------------------
(* Bounds of the model *)

\* the backend returns at most this many increments in one stream
MaxIncr == 2

\* a chat request holds at most this many messages
MaxMsgs == 2

\* this many requests arrive while the model list is uninitialized
NProcs == 3

--------------------------------------------------------------------------
(* Strings, run-length encoded *)

Run(lo, hi) == [lo |-> lo, hi |-> hi]

EmptyStr == <<>>

\* the string of the characters lo .. hi-1
Str(lo, hi) == IF lo < hi THEN <<Run(lo, hi)>> ELSE EmptyStr

RECURSIVE StrLen(_)
StrLen(s) == IF s = <<>> THEN 0 ELSE (Head(s).hi - Head(s).lo) + StrLen(Tail(s))

\* s + t
Concat(s, t) ==
    IF s = <<>> THEN t
    ELSE IF t = <<>> THEN s
    ELSE IF s[Len(s)].hi = t[1].lo
         THEN SubSeq(s, 1, Len(s) - 1) \o <<Run(s[Len(s)].lo, t[1].hi)>> \o Tail(t)
         ELSE s \o t

\* s[i:], i counted from 0
RECURSIVE Suffix(_, _)
Suffix(s, i) ==
    IF s = <<>> \/ i = 0 THEN s
    ELSE LET n == Head(s).hi - Head(s).lo
         IN IF i >= n THEN Suffix(Tail(s), i - n)
            ELSE <<Run(Head(s).lo + i, Head(s).hi)>> \o Tail(s)

\* the one-character string holding character i of s, i counted from 0
RECURSIVE CharAt(_, _)
CharAt(s, i) ==
    LET n == Head(s).hi - Head(s).lo
    IN IF i >= n THEN CharAt(Tail(s), i - n)
       ELSE Str(Head(s).lo + i, Head(s).lo + i + 1)

--------------------------------------------------------------------------
(* Program constants *)

\* genai.FinishReason
FinishReasonUnspecified == 0
FinishReasonStop == 1
FinishReasonMaxTokens == 2
FinishReasonSafety == 3
FinishReasonRecitation == 4
FinishReasonOther == 5

FinishReasons == FinishReasonUnspecified .. FinishReasonOther

\* the per-stream budget of characters sent one by one
sentenceLength == 1000

--------------------------------------------------------------------------
(* Backend responses (genai.GenerateContentResponse) *)

TextPart(lo, hi) == [t |-> "text", text |-> Str(lo, hi), id |-> 0]
FcPart(id) == [t |-> "fc", text |-> EmptyStr, id |-> id]

\* content = FALSE is a candidate whose Content is nil
Cand(parts, fr) == [content |-> TRUE, parts |-> parts, fr |-> fr]
NilCand(fr) == [content |-> FALSE, parts |-> <<>>, fr |-> fr]

Resp(cands) == [cands |-> cands]

\* a text long enough to bring the stream to the edge of the budget
LongLen == sentenceLength - 1

\* The responses the backend may return, with characters and function calls
\* numbered from 0 inside the response.  A response that holds a function
\* call next to a candidate without Content is left out: it makes
\* genaiResponseToStreamCompletionResponse dereference a nil Content.
Increments ==
    \* one candidate, one text part, every finish reason
    { Resp(<<Cand(<<TextPart(0, 1)>>, fr)>>) : fr \in FinishReasons }
    \cup
    { Resp(<<Cand(<<TextPart(0, LongLen)>>, FinishReasonUnspecified)>>),
      \* two text parts, streamed and buffered
      Resp(<<Cand(<<TextPart(0, 1), TextPart(1, 3)>>, FinishReasonUnspecified)>>),
      Resp(<<Cand(<<TextPart(0, 1), TextPart(1, 3)>>, FinishReasonSafety)>>),
      \* a finish reason and no content
      Resp(<<NilCand(FinishReasonMaxTokens)>>),
      \* no candidate at all
      Resp(<<>>),
      \* function calls, alone and next to text
      Resp(<<Cand(<<TextPart(0, 1), FcPart(0)>>, FinishReasonUnspecified)>>),
      Resp(<<Cand(<<FcPart(0), FcPart(1)>>, FinishReasonStop)>>),
      Resp(<<Cand(<<FcPart(0)>>, FinishReasonMaxTokens)>>),
      \* two candidates, the finish reason on one of them only
      Resp(<<Cand(<<TextPart(0, 1)>>, FinishReasonUnspecified),
             Cand(<<TextPart(1, 2)>>, FinishReasonMaxTokens)>>),
      Resp(<<Cand(<<TextPart(0, 1)>>, FinishReasonMaxTokens),
             Cand(<<TextPart(1, 2)>>, FinishReasonUnspecified)>>) }

ShiftStr(s, d) == [k \in 1 .. Len(s) |-> Run(s[k].lo + d, s[k].hi + d)]

ShiftPart(p, cb, fb) ==
    IF p.t = "text" THEN [p EXCEPT !.text = ShiftStr(p.text, cb)]
    ELSE [p EXCEPT !.id = p.id + fb]

\* the response with its characters numbered from cb and its calls from fb
Shift(r, cb, fb) ==
    Resp([c \in 1 .. Len(r.cands) |->
            [r.cands[c] EXCEPT !.parts =
                [k \in 1 .. Len(r.cands[c].parts) |-> ShiftPart(r.cands[c].parts[k], cb, fb)]]])

\* every part of a response, in candidate order and then part order
RECURSIVE PartsFrom(_, _)
PartsFrom(cands, c) ==
    IF c > Len(cands) THEN <<>> ELSE cands[c].parts \o PartsFrom(cands, c + 1)

AllParts(r) == PartsFrom(r.cands, 1)

RECURSIVE PartsText(_)
PartsText(ps) ==
    IF ps = <<>> THEN EmptyStr ELSE Concat(Head(ps).text, PartsText(Tail(ps)))

NChars(r) == StrLen(PartsText(AllParts(r)))
NFcs(r) == Len(SelectSeq(AllParts(r), LAMBDA p : p.t = "fc"))

--------------------------------------------------------------------------
(* Outward chunks (CompletionResponse, openai.APIError) *)

\* fr = "" is a null finish_reason.  content is the text a choice's delta
\* carries; toolCalls is the tool-call list a choice's delta carries serialized
\* in its content.
Choice(index, content, fr, toolCalls) ==
    [index |-> index, content |-> content, fr |-> fr, toolCalls |-> toolCalls]

\* A one-character text chunk has kind "chars", a longer one "text": on the
\* wire both are the same object, one choice holding the text.
TextChunk(content) ==
    [k |-> IF StrLen(content) = 1 THEN "chars" ELSE "text",
     choices |-> <<Choice(0, content, "", <<>>)>>, err |-> "", code |-> 0]

ErrorChunk(type, code) == [k |-> "error", choices |-> <<>>, err |-> type, code |-> code]

\* the literal frame "data: [DONE]"
DoneFrame == [k |-> "done", choices |-> <<>>, err |-> "", code |-> 0]

NoChunk == [k |-> "none", choices |-> <<>>, err |-> "", code |-> 0]

StatusRequestTimeout == 408
StatusTooManyRequests == 429
StatusInternalServerError == 500
StatusBadRequest == 400
StatusOK == 200

\* recitation is taken for a normal stop
convertFinishReasonNoRecitation(reason) ==
    IF reason = FinishReasonMaxTokens THEN "length"
    ELSE IF reason = FinishReasonSafety THEN "content_filter"
    ELSE "stop"

convertFinishReason(reason) ==
    IF reason = FinishReasonMaxTokens THEN "length"
    ELSE IF reason \in {FinishReasonSafety, FinishReasonRecitation} THEN "content_filter"
    ELSE "stop"

\* the chunk that carries only a finish reason
FinishChunk(reason) ==
    [k |-> "finish", choices |-> <<Choice(0, EmptyStr, convertFinishReason(reason), <<>>)>>,
     err |-> "", code |-> 0]

\* genaiResponseToStreamCompletionResponse: the parts of all candidates are
\* numbered by one counter; a text part becomes a choice, the function calls
\* are collected into one last choice.
RECURSIVE StreamTextChoices(_, _, _, _)
StreamTextChoices(cands, c, k, count) ==
    IF c > Len(cands) THEN <<>>
    ELSE IF k > Len(cands[c].parts) THEN StreamTextChoices(cands, c + 1, 1, count)
    ELSE LET pp == cands[c].parts[k]
             rest == StreamTextChoices(cands, c, k + 1, count + 1)
         IN IF pp.t = "text"
            THEN <<Choice(count, pp.text,
                          IF cands[c].fr > FinishReasonStop
                          THEN convertFinishReason(cands[c].fr) ELSE "",
                          <<>>)>> \o rest
            ELSE rest

RECURSIVE StreamToolCalls(_, _, _, _)
StreamToolCalls(cands, c, k, count) ==
    IF c > Len(cands) THEN <<>>
    ELSE IF k > Len(cands[c].parts) THEN StreamToolCalls(cands, c + 1, 1, count)
    ELSE LET pp == cands[c].parts[k]
             rest == StreamToolCalls(cands, c, k + 1, count + 1)
         IN IF pp.t = "fc" THEN <<[id |-> pp.id, index |-> count]>> \o rest ELSE rest

genaiResponseToStreamCompletionResponse(r) ==
    LET toolCalls == StreamToolCalls(r.cands, 1, 1, 0)
    IN [k |-> "tool",
        choices |-> StreamTextChoices(r.cands, 1, 1, 0) \o
                    (IF Len(toolCalls) > 0
                     THEN <<Choice(0, EmptyStr, "tool_calls", toolCalls)>> ELSE <<>>),
        err |-> "", code |-> 0]

\* A log of chunks.  Consecutive one-character chunks that carry consecutive
\* characters are kept as one entry of kind "chars" whose content is the run
\* of those characters: an entry of kind "chars" with n characters stands for
\* n chunks, every other entry for one.
AppendLog(log, c) ==
    IF /\ c.k = "chars" /\ log # <<>> /\ log[Len(log)].k = "chars"
       /\ log[Len(log)].choices[1].content[1].hi = c.choices[1].content[1].lo
    THEN [log EXCEPT ![Len(log)].choices[1].content[1].hi = c.choices[1].content[1].hi]
    ELSE Append(log, c)

\* the number of chunks an entry stands for
EntryCount(e) == IF e.k = "chars" THEN StrLen(e.choices[1].content) ELSE 1

RECURSIVE LogCount(_)
LogCount(log) == IF log = <<>> THEN 0 ELSE EntryCount(Head(log)) + LogCount(Tail(log))

\* the concatenation of delta.content over the choices of a chunk
RECURSIVE ChoicesText(_)
ChoicesText(cs) ==
    IF cs = <<>> THEN EmptyStr ELSE Concat(Head(cs).content, ChoicesText(Tail(cs)))

\* the concatenation of delta.content over a log, in order
RECURSIVE LogText(_)
LogText(log) ==
    IF log = <<>> THEN EmptyStr ELSE Concat(ChoicesText(Head(log).choices), LogText(Tail(log)))

HasFinishReason(c) == \E n \in 1 .. Len(c.choices) : c.choices[n].fr # ""

\* the entries of a log that carry a non-null finish_reason
FinishChunks(log) == SelectSeq(log, HasFinishReason)

--------------------------------------------------------------------------
(* One streaming request: GenerateStreamContent has started handleStreamIter *)
(* and ChatProxyHandler has entered c.Stream                                 *)

StreamInit ==
    /\ nIncr = 0 /\ nextChar = 0 /\ nextFc = 0 /\ backendResps = <<>> /\ iterEnd = ""
    /\ pc = "next" /\ genaiResp = Resp(<<>>) /\ ci = 1 /\ pi = 1 /\ ix = 0
    /\ textBuffer = EmptyStr /\ charCount = 0
    /\ pending = NoChunk /\ after = ""
    /\ closed = FALSE /\ nCloses = 0 /\ sent = <<>>
    /\ cpc = "select" /\ data = NoChunk /\ written = <<>>
    /\ clientGone = FALSE /\ ctxCancelled = FALSE

backendVars == <<nIncr, nextChar, nextFc, backendResps, iterEnd>>
consumerVars == <<cpc, data, written, clientGone, ctxCancelled>>
chanVars == <<closed, nCloses, sent>>

\* dataChan <- c, continuing at pc value `then` once it has been received
SendThen(c, then) == /\ pending' = c /\ after' = then /\ pc' = "send"

NoSend == UNCHANGED <<pending, after>>

\* sendFullText: an empty text is not sent
sendFullText(text, then) ==
    IF text = EmptyStr THEN /\ pc' = then /\ NoSend
    ELSE SendThen(TextChunk(text), then)

\* iter.Next returns the next response
IterNextResp ==
    /\ pc = "next" /\ ~ctxCancelled /\ nIncr < MaxIncr
    /\ \E shape \in Increments :
         LET r == Shift(shape, nextChar, nextFc)
         IN /\ genaiResp' = r
            /\ nextChar' = nextChar + NChars(r)
            /\ nextFc' = nextFc + NFcs(r)
            /\ backendResps' = Append(backendResps, r)
    /\ nIncr' = nIncr + 1
    /\ ci' = 1 /\ pi' = 1 /\ pc' = "part"
    /\ UNCHANGED <<iterEnd, ix, textBuffer, charCount, pending, after>>
    /\ UNCHANGED <<chanVars, consumerVars>>
    /\ UNCHANGED <<configVars, reqVars, onceVars>>

\* iter.Next returns iterator.Done: the buffered text is sent, then break
IterNextDone ==
    /\ pc = "next" /\ ~ctxCancelled
    /\ iterEnd' = "done"
    /\ sendFullText(textBuffer, "exit")
    /\ UNCHANGED <<nIncr, nextChar, nextFc, backendResps>>
    /\ UNCHANGED <<genaiResp, ci, pi, ix, textBuffer, charCount>>
    /\ UNCHANGED <<chanVars, consumerVars>>
    /\ UNCHANGED <<configVars, reqVars, onceVars>>

\* where handleStreamIter continues after it has sent an error chunk: break
\* the loop goes on after the error chunk
AfterErrorChunkNoBreak == "next"

AfterErrorChunk == "exit"

\* the error chunk handleStreamIter builds for an error of iter.Next
StreamErrorChunk(kind) ==
    IF kind = "canceled" THEN ErrorChunk("canceled_error", StatusRequestTimeout)
    ELSE IF kind = "rate_limit" THEN ErrorChunk("rate_limit_error", StatusTooManyRequests)
    ELSE ErrorChunk("internal_server_error", StatusInternalServerError)

\* iter.Next returns an error: context.Canceled once the request context is
\* cancelled, else a vendor 429 or any other error
IterNextError ==
    /\ pc = "next"
    /\ \E kind \in IF ctxCancelled THEN {"canceled"} ELSE {"rate_limit", "other"} :
         /\ iterEnd' = kind
         /\ SendThen(StreamErrorChunk(kind), AfterErrorChunk)
    /\ UNCHANGED <<nIncr, nextChar, nextFc, backendResps>>
    /\ UNCHANGED <<genaiResp, ci, pi, ix, textBuffer, charCount>>
    /\ UNCHANGED <<chanVars, consumerVars>>
    /\ UNCHANGED <<configVars, reqVars, onceVars>>

\* a normal stop is taken for a finish reason too
isLastMessageFromStop(candidate) == candidate.fr >= FinishReasonStop

isLastMessage(candidate) == candidate.fr > FinishReasonStop

\* the two loops over the candidates and their parts, one iteration
ProcessPart ==
    /\ pc = "part"
    /\ IF ci > Len(genaiResp.cands)
       THEN /\ pc' = "finish"
            /\ UNCHANGED <<ci, pi, ix, textBuffer, pending, after>>
       ELSE LET candidate == genaiResp.cands[ci]
            IN IF ~candidate.content \/ pi > Len(candidate.parts)
               THEN /\ ci' = ci + 1 /\ pi' = 1
                    /\ UNCHANGED <<pc, ix, textBuffer, pending, after>>
               ELSE LET part == candidate.parts[pi]
                    IN IF part.t = "text"
                       THEN IF isLastMessage(candidate)
                            THEN /\ textBuffer' = Concat(textBuffer, part.text)
                                 /\ pi' = pi + 1
                                 /\ UNCHANGED <<pc, ci, ix, pending, after>>
                            ELSE IF charCount < sentenceLength
                            THEN /\ ix' = 0 /\ pc' = "chars"
                                 /\ UNCHANGED <<ci, pi, textBuffer, pending, after>>
                            ELSE /\ sendFullText(part.text, "part")
                                 /\ pi' = pi + 1
                                 /\ UNCHANGED <<ci, ix, textBuffer>>
                       ELSE /\ SendThen(genaiResponseToStreamCompletionResponse(genaiResp), "part")
                            /\ pi' = pi + 1
                            /\ UNCHANGED <<ci, ix, textBuffer>>
    /\ UNCHANGED charCount
    /\ UNCHANGED <<backendVars, genaiResp, chanVars, consumerVars>>
    /\ UNCHANGED <<configVars, reqVars, onceVars>>

\* remaining := text[i:]
\* the block starts one character late
RemainingOffByOne(text, i) == Suffix(text, i + 1)

Remaining(text, i) == Suffix(text, i)

\* for i, char := range text, one iteration
CharLoop ==
    /\ pc = "chars"
    /\ LET text == genaiResp.cands[ci].parts[pi].text
       IN IF ix >= StrLen(text)
          THEN /\ pi' = pi + 1 /\ pc' = "part"
               /\ UNCHANGED <<ix, charCount, pending, after>>
          ELSE IF charCount < sentenceLength
          THEN /\ SendThen(TextChunk(CharAt(text, ix)), "chars")
               /\ charCount' = charCount + 1
               /\ ix' = ix + 1
               /\ UNCHANGED pi
          ELSE /\ sendFullText(Remaining(text, ix), "part")
               /\ pi' = pi + 1
               /\ UNCHANGED <<ix, charCount>>
    /\ UNCHANGED <<backendVars, genaiResp, ci, textBuffer, chanVars, consumerVars>>
    /\ UNCHANGED <<configVars, reqVars, onceVars>>

\* the finish reason is sent and the buffered text is not
FinishCheckNoFlush ==
    /\ pc = "finish"
    /\ IF Len(genaiResp.cands) > 0 /\ genaiResp.cands[1].fr > FinishReasonStop
       THEN /\ pc' = "finishChunk" /\ NoSend
       ELSE /\ pc' = "next" /\ NoSend
    /\ UNCHANGED <<backendVars, genaiResp, ci, pi, ix, textBuffer, charCount>>
    /\ UNCHANGED <<chanVars, consumerVars>>
    /\ UNCHANGED <<configVars, reqVars, onceVars>>

\* "Send finish reason if present": the buffered text first
FinishCheck ==
    /\ pc = "finish"
    /\ IF Len(genaiResp.cands) > 0 /\ genaiResp.cands[1].fr > FinishReasonStop
       THEN sendFullText(textBuffer, "finishChunk")
       ELSE /\ pc' = "next" /\ NoSend
    /\ UNCHANGED <<backendVars, genaiResp, ci, pi, ix, textBuffer, charCount>>
    /\ UNCHANGED <<chanVars, consumerVars>>
    /\ UNCHANGED <<configVars, reqVars, onceVars>>

\* the first candidate whose finish reason is above FinishReasonStop
FirstFinished(cands) ==
    cands[CHOOSE c \in 1 .. Len(cands) :
            /\ cands[c].fr > FinishReasonStop
            /\ \A d \in 1 .. c - 1 : ~(cands[d].fr > FinishReasonStop)]

\* the finish-reason chunk of the first finished candidate, then break
SendFinishReason ==
    /\ pc = "finishChunk"
    /\ SendThen(FinishChunk(FirstFinished(genaiResp.cands).fr), "exit")
    /\ UNCHANGED <<backendVars, genaiResp, ci, pi, ix, textBuffer, charCount>>
    /\ UNCHANGED <<chanVars, consumerVars>>
    /\ UNCHANGED <<configVars, reqVars, onceVars>>

\* handleStreamIter returns and dataChan stays open
ProducerExitNoClose ==
    /\ pc = "exit"
    /\ pc' = "done"
    /\ UNCHANGED <<backendVars, genaiResp, ci, pi, ix, textBuffer, charCount, pending, after>>
    /\ UNCHANGED <<chanVars, consumerVars>>
    /\ UNCHANGED <<configVars, reqVars, onceVars>>

\* handleStreamIter returns: the deferred close(dataChan) runs
ProducerExit ==
    /\ pc = "exit"
    /\ closed' = TRUE /\ nCloses' = nCloses + 1
    /\ pc' = "done"
    /\ UNCHANGED <<backendVars, genaiResp, ci, pi, ix, textBuffer, charCount, pending, after>>
    /\ UNCHANGED <<sent, consumerVars>>
    /\ UNCHANGED <<configVars, reqVars, onceVars>>

\* c.Stream's select: return when the client is gone, else call the step
\* function, which blocks in <-dataChan.  The handler returns after c.Stream,
\* and net/http cancels the request context.
StreamSelect ==
    /\ cpc = "select"
    /\ IF clientGone
       THEN /\ cpc' = "returned" /\ ctxCancelled' = TRUE
       ELSE /\ cpc' = "recv" /\ UNCHANGED ctxCancelled
    /\ UNCHANGED <<data, written, clientGone>>
    /\ UNCHANGED <<backendVars, pc, genaiResp, ci, pi, ix, textBuffer, charCount,
                   pending, after, chanVars>>
    /\ UNCHANGED <<configVars, reqVars, onceVars>>

\* dataChan is unbuffered: a send completes together with a receive
Handoff ==
    /\ pc = "send" /\ cpc = "recv" /\ ~closed
    /\ data' = pending
    /\ sent' = AppendLog(sent, pending)
    /\ pc' = after
    /\ cpc' = "render"
    /\ UNCHANGED <<backendVars, genaiResp, ci, pi, ix, textBuffer, charCount, pending, after>>
    /\ UNCHANGED <<closed, nCloses, written, clientGone, ctxCancelled>>
    /\ UNCHANGED <<configVars, reqVars, onceVars>>

\* c.Render(-1, adapter.Event{Data: "data: " + data}); return true
Render ==
    /\ cpc = "render"
    /\ written' = AppendLog(written, data)
    /\ cpc' = "select"
    /\ UNCHANGED <<data, clientGone, ctxCancelled>>
    /\ UNCHANGED <<backendVars, pc, genaiResp, ci, pi, ix, textBuffer, charCount,
                   pending, after, chanVars>>
    /\ UNCHANGED <<configVars, reqVars, onceVars>>

\* the receive from the closed channel: "data: [DONE]"; return false
RenderDone ==
    /\ cpc = "recv" /\ closed
    /\ written' = Append(written, DoneFrame)
    /\ cpc' = "returned" /\ ctxCancelled' = TRUE
    /\ UNCHANGED <<data, clientGone>>
    /\ UNCHANGED <<backendVars, pc, genaiResp, ci, pi, ix, textBuffer, charCount,
                   pending, after, chanVars>>
    /\ UNCHANGED <<configVars, reqVars, onceVars>>

\* the client closes the connection: CloseNotify fires and net/http cancels
\* the request context
ClientDisconnect ==
    /\ ~clientGone /\ cpc # "returned"
    /\ clientGone' = TRUE /\ ctxCancelled' = TRUE
    /\ UNCHANGED <<cpc, data, written>>
    /\ UNCHANGED <<backendVars, pc, genaiResp, ci, pi, ix, textBuffer, charCount,
                   pending, after, chanVars>>
    /\ UNCHANGED <<configVars, reqVars, onceVars>>

--------------------------------------------------------------------------
(* Model names.  A name is the sequence of its characters, so that         *)
(* strings.HasPrefix is computed and not assumed.                          *)

HasPrefix(str, prefix) ==
    Len(prefix) <= Len(str) /\ SubSeq(str, 1, Len(prefix)) = prefix

\* github.com/sashabaranov/go-openai
GPT4 == <<"g", "p", "t", "-", "4">>
GPT4o == GPT4 \o <<"o">>
GPT4TurboPreview == GPT4 \o <<"-", "t", "u", "r", "b", "o", "-", "p", "r", "e", "v", "i", "e", "w">>
GPT4Turbo1106 == GPT4 \o <<"-", "1", "1", "0", "6", "-", "p", "r", "e", "v", "i", "e", "w">>
GPT4Turbo0125 == GPT4 \o <<"-", "0", "1", "2", "5", "-", "p", "r", "e", "v", "i", "e", "w">>
GPT4VisionPreview == GPT4 \o <<"-", "v", "i", "s", "i", "o", "n", "-", "p", "r", "e", "v", "i", "e", "w">>
GPT3Dot5Turbo == <<"g", "p", "t", "-", "3", ".", "5", "-", "t", "u", "r", "b", "o">>
AdaEmbeddingV2 == <<"t", "e", "x", "t", "-", "e", "m", "b", "e", "d", "d", "i", "n", "g", "-",
                    "a", "d", "a", "-", "0", "0", "2">>

GeminiPrefix == <<"g", "e", "m", "i", "n", "i", "-">>
LatestSuffix == <<"-", "l", "a", "t", "e", "s", "t">>
Gemini1Dot5Pro == GeminiPrefix \o <<"1", ".", "5", "-", "p", "r", "o">> \o LatestSuffix
Gemini1Dot5Flash == GeminiPrefix \o <<"1", ".", "5", "-", "f", "l", "a", "s", "h", "-", "0", "0", "2">>
Gemini1Dot5ProV == GeminiPrefix \o <<"1", ".", "0", "-", "p", "r", "o", "-", "v", "i", "s", "i", "o", "n">>
                       \o LatestSuffix
Gemini2FlashExp == GeminiPrefix \o <<"2", ".", "0", "-", "f", "l", "a", "s", "h", "-", "e", "x", "p">>
TextEmbedding004 == <<"t", "e", "x", "t", "-", "e", "m", "b", "e", "d", "d", "i", "n", "g", "-",
                      "0", "0", "4">>

\* a backend model the vendor lists and the proxy has no constant for
Gemini2Dot5Pro == GeminiPrefix \o <<"2", ".", "5", "-", "p", "r", "o">>
\* a name nobody knows
UnknownModel == <<"m">>

\* the hardcoded default set
DefaultGeminiModels ==
    <<Gemini1Dot5Pro, Gemini1Dot5Flash, Gemini1Dot5ProV, Gemini2FlashExp, TextEmbedding004>>

\* what a successful FetchGeminiModels returns
FetchedGeminiModels == <<Gemini1Dot5Pro, Gemini1Dot5Flash, Gemini2Dot5Pro, TextEmbedding004>>

\* the model names a request may carry; the empty name is a missing field
ModelNames ==
    { GPT4, GPT4o, GPT4TurboPreview, GPT4Turbo1106, GPT4VisionPreview, GPT3Dot5Turbo,
      AdaEmbeddingV2, Gemini1Dot5Pro, Gemini1Dot5ProV, Gemini2FlashExp, Gemini2Dot5Pro,
      TextEmbedding004, UnknownModel, <<>> }

InSeq(x, seq) == \E n \in 1 .. Len(seq) : seq[n] = x

IsValidGeminiModel(modelName) ==
    IF Len(GeminiModels) = 0
    THEN modelName \in {Gemini1Dot5Pro, Gemini1Dot5Flash, Gemini1Dot5ProV, Gemini2FlashExp,
                        TextEmbedding004}
    ELSE InSeq(modelName, GeminiModels)

GetMappedModel(geminiModelName) ==
    IF ~USE_MODEL_MAPPING THEN geminiModelName
    ELSE IF geminiModelName = Gemini1Dot5Pro THEN GPT4TurboPreview
    ELSE IF geminiModelName = Gemini1Dot5Flash THEN GPT4
    ELSE IF geminiModelName = Gemini2FlashExp THEN GPT4o
    ELSE IF geminiModelName = TextEmbedding004 THEN AdaEmbeddingV2
    ELSE GPT3Dot5Turbo

\* the cases of the switch are tried top to bottom
ConvertModel(openAiModelName) ==
    IF openAiModelName = GPT4VisionPreview THEN Gemini1Dot5ProV
    ELSE IF openAiModelName \in {GPT4TurboPreview, GPT4Turbo1106, GPT4Turbo0125}
    THEN Gemini1Dot5Pro
    ELSE IF HasPrefix(openAiModelName, GPT4) THEN Gemini1Dot5Flash
    ELSE IF openAiModelName = AdaEmbeddingV2 THEN TextEmbedding004
    ELSE IF openAiModelName = GPT4o THEN Gemini2FlashExp
    ELSE Gemini1Dot5Flash

GetModel(openAiModelName) ==
    IF USE_MODEL_MAPPING THEN openAiModelName ELSE ConvertModel(openAiModelName)

\* a model that is not valid is passed on as it is
ParseModelWithoutMappingNoFallback(model) ==
    IF model = Gemini1Dot5ProV
    THEN (IF visionEnv = Gemini1Dot5Pro THEN Gemini1Dot5Pro ELSE Gemini1Dot5Flash)
    ELSE model

ParseModelWithoutMapping(model) ==
    IF model = Gemini1Dot5ProV
    THEN (IF visionEnv = Gemini1Dot5Pro THEN Gemini1Dot5Pro ELSE Gemini1Dot5Flash)
    ELSE IF IsValidGeminiModel(model) THEN model
    ELSE Gemini1Dot5Flash

ParseModelWithMapping(model) ==
    IF model = GPT4VisionPreview
    THEN (IF visionEnv = Gemini1Dot5Pro THEN Gemini1Dot5Pro ELSE Gemini1Dot5Flash)
    ELSE ConvertModel(model)

\* ChatCompletionRequest.ToGenaiModel
ToGenaiModel(model) ==
    IF USE_MODEL_MAPPING THEN ParseModelWithMapping(model) ELSE ParseModelWithoutMapping(model)

--------------------------------------------------------------------------
(* Chat messages and backend turns *)

genaiRoleUser == "user"
genaiRoleModel == "model"

Roles == {"system", "user", "assistant", "tool"}

\* a part of a message's content list: a text, or an image reference that
\* parseImageURL can (ok) or cannot resolve
MsgText(text) == [type |-> "text", text |-> text, ok |-> TRUE]
MsgImage(ok) == [type |-> "image_url", text |-> "", ok |-> ok]

\* the text of part k of message m: every text of a request is distinct
TextOf(m, k) == ToString(10 * m + k)

\* The contents message m may carry: a bare string, a list of parts, a list
\* holding an image that cannot be resolved, a value that is neither a list
\* of parts nor a string.  parts is what json.Unmarshal yields.
Contents(m) ==
    { [kind |-> "string", parts |-> <<MsgText(TextOf(m, 1))>>],
      [kind |-> "parts", parts |-> <<MsgText(TextOf(m, 1)), MsgImage(TRUE)>>],
      [kind |-> "parts", parts |-> <<MsgText(TextOf(m, 1)), MsgImage(FALSE)>>],
      [kind |-> "invalid", parts |-> <<>>] }

MessagesAt(m) ==
    { [role |-> r, kind |-> c.kind, parts |-> c.parts] : r \in Roles, c \in Contents(m) }

RECURSIVE MessageLists(_)
\* the message lists of length n
MessageLists(n) ==
    IF n = 0 THEN {<<>>}
    ELSE { Append(l, m) : l \in MessageLists(n - 1), m \in MessagesAt(n) }

\* the message lists a request may carry; the empty list does not pass binding
RequestMessages == UNION { MessageLists(n) : n \in 0 .. MaxMsgs }

Text(text) == [t |-> "text", text |-> text]
ImageData == [t |-> "image", text |-> ""]

Turn(role, parts) == [role |-> role, parts |-> parts]

\* the inner loop of toVisionGenaiContent: the prompt of one message
RECURSIVE PromptOf(_)
PromptOf(parts) ==
    IF parts = <<>> THEN <<>>
    ELSE (IF Head(parts).type = "text" THEN <<Text(Head(parts).text)>>
          ELSE IF Head(parts).type = "image_url" THEN <<ImageData>>
          ELSE <<>>) \o PromptOf(Tail(parts))

\* an image that cannot be resolved is skipped
ContentErrorIgnoresImages(message) ==
    IF message.kind = "invalid" THEN "failed to unmarshal message content" ELSE ""

\* the error of converting one message's content, "" when there is none
ContentError(message) ==
    IF message.kind = "invalid" THEN "failed to unmarshal message content"
    ELSE IF \E k \in 1 .. Len(message.parts) :
                message.parts[k].type = "image_url" /\ ~message.parts[k].ok
    THEN "parse image url error"
    ELSE ""

\* a system message becomes a user turn and nothing else
TurnsOfMessageNoFiller(message) ==
    LET prompt == PromptOf(message.parts)
    IN IF message.role = "assistant" THEN <<Turn(genaiRoleModel, prompt)>>
       ELSE IF message.role \in {"user", "system"} THEN <<Turn(genaiRoleUser, prompt)>>
       ELSE <<>>

\* the switch on message.Role: the turns one message contributes
TurnsOfMessage(message) ==
    LET prompt == PromptOf(message.parts)
    IN IF message.role = "system"
       THEN <<Turn(genaiRoleUser, prompt), Turn(genaiRoleModel, <<Text(" ")>>)>>
       ELSE IF message.role = "assistant" THEN <<Turn(genaiRoleModel, prompt)>>
       ELSE IF message.role = "user" THEN <<Turn(genaiRoleUser, prompt)>>
       ELSE <<>>

\* toVisionGenaiContent: the first message whose content fails aborts the
\* conversion
RECURSIVE toVisionGenaiContent(_)
toVisionGenaiContent(msgs) ==
    IF msgs = <<>> THEN [err |-> "", content |-> <<>>]
    ELSE IF ContentError(Head(msgs)) # ""
    THEN [err |-> ContentError(Head(msgs)), content |-> <<>>]
    ELSE LET rest == toVisionGenaiContent(Tail(msgs))
         IN IF rest.err # "" THEN rest
            ELSE [err |-> "", content |-> TurnsOfMessage(Head(msgs)) \o rest.content]

ToGenaiMessages(r) ==
    IF r.model = TextEmbedding004 \/ r.model = AdaEmbeddingV2
    THEN [err |-> "Chat Completion is not supported for embedding model", content |-> <<>>]
    ELSE toVisionGenaiContent(r.messages)

\* setGenaiChatHistory
setGenaiChatHistory(msgs) ==
    LET h == IF Len(msgs) > 1 THEN SubSeq(msgs, 1, Len(msgs) - 1) ELSE <<>>
    IN IF Len(h) # 0 /\ h[Len(h)].role # genaiRoleModel
       THEN Append(h, Turn(genaiRoleModel, <<Text("")>>))
       ELSE h

\* cs.SendMessage(ctx, parts...) appends the parts to the history as a user
\* turn and sends the whole of it
SendMessageTurns(h, parts) == Append(h, Turn(genaiRoleUser, parts))

--------------------------------------------------------------------------
(* Errors *)

\* An error value: kind "google" is a *googleapi.Error, "openai" an
\* *openai.APIError, "wrap" an errors.Wrap around cause, "other" anything else.
\* message is the text, a sequence of pieces.
NoError == [kind |-> "nil", code |-> 0, message |-> <<>>, type |-> "", cause |-> <<>>]
GoogleError(code, message) ==
    [kind |-> "google", code |-> code, message |-> <<message>>, type |-> "", cause |-> <<>>]
OtherError(message) ==
    [kind |-> "other", code |-> 0, message |-> <<message>>, type |-> "", cause |-> <<>>]
APIError(code, message, type) ==
    [kind |-> "openai", code |-> code, message |-> message, type |-> type, cause |-> <<>>]
Wrap(err, message) ==
    [kind |-> "wrap", code |-> 0, message |-> <<message>>, type |-> "", cause |-> <<err>>]

\* (*googleapi.Error).Wrap: gerr, with err as what its Unwrap returns
GoogleWrap(gerr, err) == [gerr EXCEPT !.cause = <<err>>]

\* APIError.Code is of type any: NoIntCode is written for a Code that holds no
\* int (nil, or a string such as "insufficient_quota")
NoIntCode == 0 - 1

\* err.Error()
RECURSIVE ErrorText(_)
ErrorText(err) ==
    IF err.kind = "wrap" THEN err.message \o ErrorText(err.cause[1])
    ELSE IF err.kind = "google" THEN <<"googleapi: Error", ToString(err.code)>> \o err.message
    ELSE err.message

\* errors.As: the first error of the chain that has the kind, as a sequence
\* of none or one; the chain is followed through whatever Unwrap returns
RECURSIVE ErrorsAs(_, _)
ErrorsAs(err, kind) ==
    IF err.kind = kind THEN <<err>>
    ELSE IF err.cause # <<>> THEN ErrorsAs(err.cause[1], kind)
    ELSE <<>>

\* the errors cs.SendMessage may return
BackendErrors ==
    { GoogleError(StatusTooManyRequests, "quota exceeded"),
      GoogleError(StatusTooManyRequests, "slow down"),
      GoogleError(StatusInternalServerError, "backend unavailable"),
      GoogleError(StatusBadRequest, "bad request"),
      OtherError("unexpected EOF") }

\* what GenerateContent returns for an error of cs.SendMessage
GenerateContentError(err) ==
    LET apiErr == ErrorsAs(err, "google")
    IN IF apiErr # <<>> /\ apiErr[1].code = StatusTooManyRequests
       THEN Wrap(APIError(StatusTooManyRequests, ErrorText(err), ""), "genai send message error")
       ELSE Wrap(err, "genai send message error")

\* an HTTP response: a status and an error body, a completion, or the stream
ErrorResponse(status, code, message, type) ==
    [status |-> status, kind |-> "error", code |-> code, message |-> message, type |-> type,
     model |-> <<>>, choices |-> <<>>]

NoResponse ==
    [status |-> 0, kind |-> "none", code |-> 0, message |-> <<>>, type |-> "",
     model |-> <<>>, choices |-> <<>>]

\* the status of an outward error: its Code when that holds an int
StatusOfCode(code) == IF code # NoIntCode THEN code ELSE StatusInternalServerError

\* handleGenerateContentError with the vendor error tested before the outward
\* one
handleGenerateContentErrorVendorFirst(err) ==
    LET openaiErr == ErrorsAs(err, "openai")
        googleErr == ErrorsAs(err, "google")
    IN IF googleErr # <<>>
       THEN IF googleErr[1].code = StatusTooManyRequests
            THEN ErrorResponse(StatusTooManyRequests, StatusTooManyRequests,
                               <<"Rate limit exceeded">>, "rate_limit_error")
            ELSE ErrorResponse(googleErr[1].code, googleErr[1].code, googleErr[1].message,
                               "server_error")
       ELSE IF openaiErr # <<>>
       THEN ErrorResponse(StatusOfCode(openaiErr[1].code), openaiErr[1].code,
                          openaiErr[1].message, openaiErr[1].type)
       ELSE ErrorResponse(StatusInternalServerError, StatusInternalServerError,
                          ErrorText(err), "server_error")

\* handleGenerateContentError with an outward error under a wrap treated as
\* any other error
handleGenerateContentErrorNoUnwrap(err) ==
    LET googleErr == ErrorsAs(err, "google")
    IN IF err.kind = "openai"
       THEN ErrorResponse(StatusOfCode(err.code), err.code, err.message, err.type)
       ELSE IF googleErr # <<>>
       THEN IF googleErr[1].code = StatusTooManyRequests
            THEN ErrorResponse(StatusTooManyRequests, StatusTooManyRequests,
                               <<"Rate limit exceeded">>, "rate_limit_error")
            ELSE ErrorResponse(googleErr[1].code, googleErr[1].code, googleErr[1].message,
                               "server_error")
       ELSE ErrorResponse(StatusInternalServerError, StatusInternalServerError,
                          ErrorText(err), "server_error")

handleGenerateContentError(err) ==
    LET openaiErr == ErrorsAs(err, "openai")
        googleErr == ErrorsAs(err, "google")
    IN IF openaiErr # <<>>
       THEN ErrorResponse(StatusOfCode(openaiErr[1].code), openaiErr[1].code,
                          openaiErr[1].message, openaiErr[1].type)
       ELSE IF googleErr # <<>>
       THEN IF googleErr[1].code = StatusTooManyRequests
            THEN ErrorResponse(StatusTooManyRequests, StatusTooManyRequests,
                               <<"Rate limit exceeded">>, "rate_limit_error")
            ELSE ErrorResponse(googleErr[1].code, googleErr[1].code, googleErr[1].message,
                               "server_error")
       ELSE ErrorResponse(StatusInternalServerError, StatusInternalServerError,
                          ErrorText(err), "server_error")

\* the errors handleGenerateContentError is applied to: outward errors with
\* and without an int Code, vendor errors, other errors, each bare and under
\* a wrap, a vendor error that unwraps to an outward one, and what
\* GenerateContent returns
ErrorCodes == {StatusBadRequest, 403, StatusTooManyRequests, StatusInternalServerError}

ErrorChains ==
    LET outward == { APIError(c, <<m>>, t) :
                       c \in ErrorCodes \cup {NoIntCode},
                       m \in {"quota exceeded", "bad request"},
                       t \in {"", "rate_limit_error"} }
        vendor == { GoogleError(c, m) :
                       c \in ErrorCodes \cup {503},
                       m \in {"quota exceeded", "backend unavailable"} }
        other == { OtherError("unexpected EOF"), OtherError("context canceled") }
        bare == outward \cup vendor \cup other
                  \cup { GoogleWrap(g, APIError(StatusBadRequest, <<"bad request">>, ""))
                           : g \in vendor }
    IN bare \cup { Wrap(e, "genai send message error") : e \in bare }
            \cup { GenerateContentError(e) : e \in BackendErrors }

\* the body of an error response, as the *openai.APIError it is
BodyOf(r) == APIError(r.code, r.message, r.type)

\* handleGenerateContentError(c, err) writes the response
MapError ==
    /\ rpc = "map"
    /\ response' = handleGenerateContentError(backendErr)
    /\ rpc' = "mapped"
    /\ UNCHANGED <<req, messages, genaiModel, history, turnsSent, backendErr, backendResp>>
    /\ UNCHANGED <<streamVars, configVars, onceVars, buildVars>>

\* the body that was written is given to handleGenerateContentError again
Remap ==
    /\ rpc = "mapped"
    /\ backendErr' = BodyOf(response)
    /\ response' = handleGenerateContentError(BodyOf(response))
    /\ rpc' = "remapped"
    /\ UNCHANGED <<req, messages, genaiModel, history, turnsSent, backendResp>>
    /\ UNCHANGED <<streamVars, configVars, onceVars, buildVars>>

MapNext == MapError \/ Remap

ProducerNext ==
    \/ IterNextResp \/ IterNextDone \/ IterNextError
    \/ ProcessPart \/ CharLoop \/ FinishCheck \/ SendFinishReason
    \/ ProducerExit

ConsumerNext == StreamSelect \/ Render \/ RenderDone

--------------------------------------------------------------------------
(* The non-streaming response (genaiResponseToOpenaiResponse) *)

\* the text the loop over a candidate's parts leaves in content
RECURSIVE ContentOf(_, _)
ContentOf(parts, content) ==
    IF parts = <<>> THEN content
    ELSE ContentOf(Tail(parts), IF Head(parts).t = "text" THEN Head(parts).text ELSE content)

\* the tool calls of a candidate, each with the index of its part
ToolCallsOf(parts) ==
    LET idx == SelectSeq([j \in 1 .. Len(parts) |-> j], LAMBDA j : parts[j].t = "fc")
    IN [n \in 1 .. Len(idx) |-> [id |-> parts[idx[n]].id, index |-> idx[n] - 1]]

\* the text is kept next to the tool calls
ChoiceOfKeepsContent(candidate, i) ==
    LET parts == IF candidate.content THEN candidate.parts ELSE <<>>
        toolCalls == ToolCallsOf(parts)
    IN IF Len(toolCalls) > 0
       THEN Choice(i, ContentOf(parts, EmptyStr), "tool_calls", toolCalls)
       ELSE Choice(i, ContentOf(parts, EmptyStr), convertFinishReason(candidate.fr), <<>>)

ChoiceOf(candidate, i) ==
    LET parts == IF candidate.content THEN candidate.parts ELSE <<>>
        toolCalls == ToolCallsOf(parts)
    IN IF Len(toolCalls) > 0
       THEN Choice(i, EmptyStr, "tool_calls", toolCalls)
       ELSE Choice(i, ContentOf(parts, EmptyStr), convertFinishReason(candidate.fr), <<>>)

genaiResponseToOpenaiResponse(model, r) ==
    [status |-> StatusOK, kind |-> "completion", code |-> 0, message |-> <<>>, type |-> "",
     model |-> GetMappedModel(model),
     choices |-> [i \in 1 .. Len(r.cands) |-> ChoiceOf(r.cands[i], i - 1)]]

\* a finish reason the proxy has no name for
FinishReasonUnknown == FinishReasonOther + 1

\* the responses cs.SendMessage may return
Completions ==
    { Resp(<<Cand(<<TextPart(0, 1)>>, fr)>>) : fr \in FinishReasons \cup {FinishReasonUnknown} }
    \cup
    { Resp(<<Cand(<<TextPart(0, 2)>>, FinishReasonStop)>>),
      Resp(<<Cand(<<TextPart(0, 2), TextPart(2, 3)>>, FinishReasonMaxTokens)>>),
      Resp(<<Cand(<<TextPart(0, 2), FcPart(0)>>, FinishReasonStop)>>),
      Resp(<<Cand(<<FcPart(0), TextPart(0, 2), FcPart(1)>>, FinishReasonStop)>>),
      Resp(<<NilCand(FinishReasonSafety)>>),
      Resp(<<Cand(<<TextPart(0, 1)>>, FinishReasonRecitation),
             Cand(<<FcPart(0)>>, FinishReasonOther)>>),
      Resp(<<>>) }

--------------------------------------------------------------------------
(* The tool configuration (setGenaiModelByOpenaiRequest) *)

\* genai.FunctionCallingMode
FunctionCallingUnspecified == 0
FunctionCallingAuto == 1
FunctionCallingAny == 2
FunctionCallingNone == 3

\* an openai.Tool: its type and the name of its function
Tool(type, name) == [type |-> type, name |-> name]

\* req.ToolChoice is of type any: nothing, a string, or an object that may
\* hold a function with a name
NoToolChoice == [t |-> "nil", v |-> ""]
ChoiceString(v) == [t |-> "string", v |-> v]
ChoiceFunction(name) == [t |-> "function", v |-> name]
ChoiceObject == [t |-> "object", v |-> ""]

ToolLists ==
    { <<>>, <<Tool("function", "f")>>, <<Tool("function", "g")>>,
      <<Tool("function", "f"), Tool("function", "g")>>,
      <<Tool("function", "g"), Tool("function", "f")>>,
      <<Tool("retrieval", "r")>>,
      <<Tool("retrieval", "r"), Tool("function", "f")>> }

ToolChoices ==
    { NoToolChoice, ChoiceString("none"), ChoiceString("auto"), ChoiceString("required"),
      ChoiceFunction("f"), ChoiceFunction("g"), ChoiceFunction("h"), ChoiceObject }

\* convertOpenAIToolsToGenAI: one genai.Tool, of one declaration, for every
\* tool of type function
RECURSIVE convertOpenAIToolsToGenAI(_)
convertOpenAIToolsToGenAI(ts) ==
    IF ts = <<>> THEN <<>>
    ELSE (IF Head(ts).type = "function" THEN <<Head(ts).name>> ELSE <<>>)
           \o convertOpenAIToolsToGenAI(Tail(ts))

NoToolConfig == [set |-> FALSE, mode |-> FunctionCallingUnspecified, allowed |-> <<>>]
ToolConfig(mode, allowed) == [set |-> TRUE, mode |-> mode, allowed |-> allowed]

\* the switch over req.ToolChoice, on a fresh FunctionCallingConfig
ToolConfigOf(choice) ==
    IF choice.t = "string"
    THEN IF choice.v = "none" THEN ToolConfig(FunctionCallingNone, <<>>)
         ELSE IF choice.v = "auto" THEN ToolConfig(FunctionCallingAuto, <<>>)
         ELSE ToolConfig(FunctionCallingUnspecified, <<>>)
    ELSE IF choice.t = "function"
    THEN ToolConfig(FunctionCallingAny, <<choice.v>>)
    ELSE ToolConfig(FunctionCallingUnspecified, <<>>)

BuildIdle ==
    /\ tools = <<>> /\ toolChoice = NoToolChoice
    /\ modelTools = <<>> /\ modelToolConfig = NoToolConfig

\* setGenaiModelByOpenaiRequest(model, req), the tools of it
SetGenaiModel ==
    /\ rpc = "build"
    /\ IF Len(tools) > 0
       THEN /\ modelTools' = convertOpenAIToolsToGenAI(tools)
            /\ modelToolConfig' = ToolConfigOf(toolChoice)
       ELSE UNCHANGED <<modelTools, modelToolConfig>>
    /\ rpc' = "built"
    /\ UNCHANGED <<tools, toolChoice>>
    /\ UNCHANGED <<req, messages, genaiModel, history, turnsSent, backendErr, backendResp,
                   response>>
    /\ UNCHANGED <<streamVars, configVars, onceVars>>

--------------------------------------------------------------------------
(* One request through ChatProxyHandler, in a process whose model list is  *)
(* initialized                                                              *)

NoRequest == [model |-> <<>>, messages |-> <<>>, stream |-> FALSE]

ReqIdle ==
    /\ rpc = "idle" /\ req = NoRequest /\ messages = <<>> /\ genaiModel = <<>>
    /\ history = <<>> /\ turnsSent = <<>> /\ backendErr = NoError /\ response = NoResponse
    /\ backendResp = Resp(<<>>)
    /\ BuildIdle

ConfigIdle ==
    /\ USE_MODEL_MAPPING = TRUE /\ visionEnv = <<>> /\ GeminiModels = <<>>

ReqInit ==
    /\ USE_MODEL_MAPPING \in BOOLEAN
    /\ visionEnv \in {<<>>, Gemini1Dot5Pro}
    /\ GeminiModels \in {DefaultGeminiModels, FetchedGeminiModels, <<>>}
    /\ rpc = "auth" /\ req = NoRequest /\ messages = <<>> /\ genaiModel = <<>>
    /\ history = <<>> /\ turnsSent = <<>> /\ backendErr = NoError /\ response = NoResponse
    /\ backendResp = Resp(<<>>)
    /\ BuildIdle

\* the response of the handler's own 400 answers
BadRequest(message) == ErrorResponse(StatusBadRequest, StatusBadRequest, message, "")

\* the bearer token is read from the Authorization header; InitGeminiModels,
\* which follows, finds the initialization done
Authorize ==
    /\ rpc = "auth"
    /\ \E authOk \in BOOLEAN :
         IF ~authOk
         THEN /\ response' = handleGenerateContentError(OtherError("unexpected EOF"))
              /\ rpc' = "responded"
         ELSE /\ rpc' = "bind" /\ UNCHANGED response
    /\ UNCHANGED <<req, messages, genaiModel, history, turnsSent, backendErr, backendResp>>
    /\ UNCHANGED <<streamVars, configVars, onceVars, buildVars>>

\* the JSON body is bound: a request without a model or without a message is
\* answered at once
BindRequest ==
    /\ rpc = "bind"
    /\ \E model \in ModelNames, msgs \in RequestMessages, stream \in BOOLEAN :
         IF model = <<>> \/ Len(msgs) < 1
         THEN /\ response' = BadRequest(<<"validation failed">>)
              /\ rpc' = "responded" /\ UNCHANGED req
         ELSE /\ req' = [model |-> model, messages |-> msgs, stream |-> stream]
              /\ rpc' = "convert" /\ UNCHANGED response
    /\ UNCHANGED <<messages, genaiModel, history, turnsSent, backendErr, backendResp>>
    /\ UNCHANGED <<streamVars, configVars, onceVars, buildVars>>

\* messages, err := req.ToGenaiMessages()
ConvertMessages ==
    /\ rpc = "convert"
    /\ LET r == ToGenaiMessages(req)
       IN IF r.err # ""
          THEN /\ response' = BadRequest(<<r.err>>)
               /\ rpc' = "responded" /\ UNCHANGED messages
          ELSE /\ messages' = r.content
               /\ rpc' = "resolve" /\ UNCHANGED response
    /\ UNCHANGED <<req, genaiModel, history, turnsSent, backendErr, backendResp>>
    /\ UNCHANGED <<streamVars, configVars, onceVars, buildVars>>

\* genai.NewClient; model := req.ToGenaiModel(); NewGeminiAdapter(client, model)
ResolveModel ==
    /\ rpc = "resolve"
    /\ \E clientOk \in BOOLEAN :
         IF ~clientOk
         THEN /\ response' = BadRequest(<<"new genai client error">>)
              /\ rpc' = "responded" /\ UNCHANGED genaiModel
         ELSE /\ genaiModel' = ToGenaiModel(req.model)
              /\ rpc' = "generate" /\ UNCHANGED response
    /\ UNCHANGED <<req, messages, history, turnsSent, backendErr, backendResp>>
    /\ UNCHANGED <<streamVars, configVars, onceVars, buildVars>>

\* the index expression messages[len(messages)-1] is defined
LastMessageDefined(msgs) == Len(msgs) > 0

\* the recovered panic of gin.Default's Recovery middleware
PanicResponse ==
    [status |-> StatusInternalServerError, kind |-> "panic", code |-> 0, message |-> <<>>,
     type |-> "", model |-> <<>>, choices |-> <<>>]

StreamResponse ==
    [status |-> StatusOK, kind |-> "stream", code |-> 0, message |-> <<>>, type |-> "",
     model |-> <<>>, choices |-> <<>>]

\* GenerateContent / GenerateStreamContent: the history is set, the parts of
\* the last turn are sent, and the result or the error is answered
Generate ==
    /\ rpc = "generate"
    /\ history' = setGenaiChatHistory(messages)
    /\ IF ~LastMessageDefined(messages)
       THEN /\ response' = PanicResponse /\ rpc' = "responded"
            /\ UNCHANGED <<turnsSent, backendErr, backendResp>>
       ELSE /\ turnsSent' = SendMessageTurns(history', messages[Len(messages)].parts)
            /\ IF req.stream
               THEN /\ response' = StreamResponse /\ rpc' = "streaming"
                    /\ UNCHANGED <<backendErr, backendResp>>
               ELSE /\ rpc' = "responded"
                    /\ \/ \E err \in BackendErrors :
                            /\ backendErr' = err /\ UNCHANGED backendResp
                            /\ response' = handleGenerateContentError(GenerateContentError(err))
                       \/ \E r \in Completions :
                            /\ backendResp' = r
                            /\ response' = genaiResponseToOpenaiResponse(genaiModel, r)
                            /\ UNCHANGED backendErr
    /\ UNCHANGED <<req, messages, genaiModel>>
    /\ UNCHANGED <<streamVars, configVars, onceVars, buildVars>>

ReqNext == Authorize \/ BindRequest \/ ConvertMessages \/ ResolveModel \/ Generate

--------------------------------------------------------------------------
(* InitGeminiModels under concurrent requests.  geminiModelsOnce.Do(f) is  *)
(* sync.Once: a load of the done flag; when it is 0, the mutex is taken,   *)
(* the flag is read again and, when it is still 0, f runs and the flag is  *)
(* set before the mutex is released.                                       *)

Procs == 1 .. NProcs

EmbedIdle ==
    /\ modelsLock = 0 /\ epc = "idle" /\ embedReq = <<>> /\ lenSeen = 0
    /\ embedModel = <<>> /\ racyReads = {}

OnceIdle ==
    /\ onceDone = FALSE /\ onceM = 0 /\ fetchCount = 0 /\ fetchResult = "" /\ writeCount = 0
    /\ hpc = [p \in Procs |-> "idle"] /\ initErr = [p \in Procs |-> ""]
    /\ EmbedIdle

OnceInit ==
    /\ USE_MODEL_MAPPING \in BOOLEAN /\ visionEnv = <<>> /\ GeminiModels = <<>>
    /\ onceDone = FALSE /\ onceM = 0 /\ fetchCount = 0 /\ fetchResult = "" /\ writeCount = 0
    /\ hpc = [p \in Procs |-> "start"] /\ initErr = [p \in Procs |-> ""]
    /\ modelsLock = 0 /\ epc = "start" /\ embedReq = <<>> /\ lenSeen = 0
    /\ embedModel = <<>> /\ racyReads = {}

\* geminiModelsOnce.Do: the load of the done flag outside the mutex
OnceDo(p) ==
    /\ hpc[p] = "start"
    /\ hpc' = [hpc EXCEPT ![p] = IF onceDone THEN "initialized" ELSE "doSlow"]
    /\ UNCHANGED <<onceDone, onceM, fetchCount, fetchResult, writeCount, initErr>>
    /\ UNCHANGED embedVars
    /\ UNCHANGED <<streamVars, configVars, reqVars>>

\* f runs whatever the done flag says
MustRunUnchecked == TRUE

\* under the mutex, f runs when the done flag is still 0
MustRun == ~onceDone

\* doSlow: the mutex is taken and the done flag read again
OnceLock(p) ==
    /\ hpc[p] = "doSlow" /\ onceM = 0
    /\ IF MustRun
       THEN /\ onceM' = p /\ hpc' = [hpc EXCEPT ![p] = "fetch"]
       ELSE /\ onceM' = 0 /\ hpc' = [hpc EXCEPT ![p] = "initialized"]
    /\ UNCHANGED <<onceDone, fetchCount, fetchResult, writeCount, initErr>>
    /\ UNCHANGED embedVars
    /\ UNCHANGED <<streamVars, configVars, reqVars>>

\* models, err := FetchGeminiModels(ctx, apiKey)
Fetch(p) ==
    /\ hpc[p] = "fetch"
    /\ fetchCount' = fetchCount + 1
    /\ \E result \in {"ok", "failed"} : fetchResult' = result
    /\ hpc' = [hpc EXCEPT ![p] = "store"]
    /\ UNCHANGED <<onceDone, onceM, writeCount, initErr>>
    /\ UNCHANGED embedVars
    /\ UNCHANGED <<streamVars, configVars, reqVars>>

\* the error InitGeminiModels returns to the caller that ran the fetch
InitError(result) == IF result = "failed" THEN "fetch failed" ELSE ""

\* the list InitGeminiModels writes: the fetched list, or the default set
\* when the fetch failed
ModelsToStore == IF fetchResult = "failed" THEN DefaultGeminiModels ELSE FetchedGeminiModels

\* geminiModelsLock.Lock()
LockModels(p) ==
    /\ hpc[p] = "store" /\ modelsLock = 0
    /\ modelsLock' = p
    /\ hpc' = [hpc EXCEPT ![p] = "write"]
    /\ UNCHANGED <<onceDone, onceM, fetchCount, fetchResult, writeCount, initErr>>
    /\ UNCHANGED <<epc, embedReq, lenSeen, embedModel, racyReads>>
    /\ UNCHANGED <<streamVars, configVars, reqVars>>

\* a request is between geminiModelsLock.Lock() and Unlock(), writing GeminiModels
Writing == \E p \in Procs : hpc[p] = "write"

\* GeminiModels is written under geminiModelsLock, which is then released
StoreModels(p) ==
    /\ hpc[p] = "write"
    /\ GeminiModels' = ModelsToStore
    /\ writeCount' = writeCount + 1
    /\ modelsLock' = 0
    /\ initErr' = [initErr EXCEPT ![p] = InitError(fetchResult)]
    /\ hpc' = [hpc EXCEPT ![p] = "unlock"]
    /\ UNCHANGED <<onceDone, onceM, fetchCount, fetchResult>>
    /\ UNCHANGED <<epc, embedReq, lenSeen, embedModel, racyReads>>
    /\ UNCHANGED <<USE_MODEL_MAPPING, visionEnv>>
    /\ UNCHANGED <<streamVars, reqVars>>

\* f has returned: the done flag is set and the mutex released
OnceUnlock(p) ==
    /\ hpc[p] = "unlock"
    /\ onceDone' = TRUE /\ onceM' = 0
    /\ hpc' = [hpc EXCEPT ![p] = "initialized"]
    /\ UNCHANGED <<fetchCount, fetchResult, writeCount, initErr>>
    /\ UNCHANGED embedVars
    /\ UNCHANGED <<streamVars, configVars, reqVars>>

\* ChatProxyHandler after InitGeminiModels: an error is answered with a 500,
\* otherwise the request goes on to be bound, translated and sent
AfterInit(p) ==
    /\ hpc[p] = "initialized"
    /\ hpc' = [hpc EXCEPT ![p] = IF initErr[p] # "" THEN "rejected" ELSE "proceeds"]
    /\ UNCHANGED <<onceDone, onceM, fetchCount, fetchResult, writeCount, initErr>>
    /\ UNCHANGED embedVars
    /\ UNCHANGED <<streamVars, configVars, reqVars>>

\* ChatProxyHandler's req.ToGenaiModel(): with mapping disabled
\* IsValidGeminiModel reads len(GeminiModels) with no lock held
ChatReadModels(p) ==
    /\ hpc[p] = "proceeds"
    /\ hpc' = [hpc EXCEPT ![p] = "resolved"]
    /\ racyReads' = IF ~USE_MODEL_MAPPING /\ Writing THEN racyReads \cup {"chat"} ELSE racyReads
    /\ UNCHANGED <<onceDone, onceM, fetchCount, fetchResult, writeCount, initErr>>
    /\ UNCHANGED <<modelsLock, epc, embedReq, lenSeen, embedModel>>
    /\ UNCHANGED <<streamVars, configVars, reqVars>>

\* the models req.ToGenaiMessages() lets through to EmbeddingRequest.ToGenaiModel
EmbeddingModels == {TextEmbedding004, AdaEmbeddingV2}

\* EmbeddingProxyHandler up to req.ToGenaiModel(): InitGeminiModels is not
\* called; with mapping enabled the model is converted
EmbedStart ==
    /\ epc = "start"
    /\ \E model \in EmbeddingModels :
         /\ embedReq' = model
         /\ IF USE_MODEL_MAPPING
            THEN embedModel' = ConvertModel(model) /\ epc' = "done"
            ELSE UNCHANGED embedModel /\ epc' = "len"
    /\ UNCHANGED <<onceDone, onceM, fetchCount, fetchResult, writeCount, hpc, initErr>>
    /\ UNCHANGED <<modelsLock, lenSeen, racyReads>>
    /\ UNCHANGED <<streamVars, configVars, reqVars>>

\* what a read of len(GeminiModels) may give: the length of the list, or,
\* while the list is being written, the old or the new length
LenRead == IF Writing THEN {Len(GeminiModels), Len(ModelsToStore)} ELSE {Len(GeminiModels)}

\* IsValidGeminiModel on the default set
ValidByDefault(modelName) ==
    modelName \in {Gemini1Dot5Pro, Gemini1Dot5Flash, Gemini1Dot5ProV, Gemini2FlashExp,
                   TextEmbedding004}

\* the fallback of EmbeddingRequest.ToGenaiModel
EmbedFallback(valid, modelName) == IF valid THEN modelName ELSE TextEmbedding004

\* IsValidGeminiModel: len(GeminiModels) == 0 is evaluated with no lock held
EmbedReadLen ==
    /\ epc = "len"
    /\ racyReads' = IF Writing THEN racyReads \cup {"embedding"} ELSE racyReads
    /\ \E n \in LenRead :
         /\ lenSeen' = n
         /\ IF n = 0
            THEN /\ embedModel' = EmbedFallback(ValidByDefault(embedReq), embedReq)
                 /\ epc' = "done"
            ELSE /\ epc' = "rlock" /\ UNCHANGED embedModel
    /\ UNCHANGED <<onceDone, onceM, fetchCount, fetchResult, writeCount, hpc, initErr>>
    /\ UNCHANGED <<modelsLock, embedReq>>
    /\ UNCHANGED <<streamVars, configVars, reqVars>>

\* geminiModelsLock.RLock()
EmbedRLock ==
    /\ epc = "rlock" /\ modelsLock = 0
    /\ modelsLock' = -1
    /\ epc' = "loop"
    /\ UNCHANGED <<onceDone, onceM, fetchCount, fetchResult, writeCount, hpc, initErr>>
    /\ UNCHANGED <<embedReq, lenSeen, embedModel, racyReads>>
    /\ UNCHANGED <<streamVars, configVars, reqVars>>

\* the loop over GeminiModels and the deferred RUnlock
EmbedLoop ==
    /\ epc = "loop"
    /\ embedModel' = EmbedFallback(InSeq(embedReq, GeminiModels), embedReq)
    /\ modelsLock' = 0
    /\ epc' = "done"
    /\ UNCHANGED <<onceDone, onceM, fetchCount, fetchResult, writeCount, hpc, initErr>>
    /\ UNCHANGED <<embedReq, lenSeen, racyReads>>
    /\ UNCHANGED <<streamVars, configVars, reqVars>>

EmbedNext == EmbedStart \/ EmbedReadLen \/ EmbedRLock \/ EmbedLoop

OnceNext ==
    \/ \E p \in Procs :
        \/ OnceDo(p) \/ OnceLock(p) \/ Fetch(p) \/ LockModels(p) \/ StoreModels(p)
        \/ OnceUnlock(p) \/ AfterInit(p) \/ ChatReadModels(p)
    \/ EmbedNext

--------------------------------------------------------------------------
(* Specifications *)

StreamNext == ProducerNext \/ Handoff \/ ConsumerNext \/ ClientDisconnect

Init == StreamInit /\ ConfigIdle /\ ReqIdle /\ OnceIdle

Next == StreamNext

\* one streaming request
Spec == Init /\ [][Next]_vars

\* The Go scheduler runs every goroutine that can run, and the backend answers
\* every call; a client is free never to disconnect.
FairSpec ==
    /\ Spec
    /\ WF_vars(ProducerNext) /\ WF_vars(Handoff) /\ WF_vars(ConsumerNext)

StreamIdle ==
    /\ nIncr = 0 /\ nextChar = 0 /\ nextFc = 0 /\ backendResps = <<>> /\ iterEnd = ""
    /\ pc = "idle" /\ genaiResp = Resp(<<>>) /\ ci = 1 /\ pi = 1 /\ ix = 0
    /\ textBuffer = EmptyStr /\ charCount = 0
    /\ pending = NoChunk /\ after = ""
    /\ closed = FALSE /\ nCloses = 0 /\ sent = <<>>
    /\ cpc = "idle" /\ data = NoChunk /\ written = <<>>
    /\ clientGone = FALSE /\ ctxCancelled = FALSE

HandlerInit == StreamIdle /\ ReqInit /\ OnceIdle

\* one request through ChatProxyHandler
ReqSpec == HandlerInit /\ [][ReqNext]_vars

ConcurrentInit == StreamIdle /\ OnceInit /\ ReqIdle

\* concurrent first requests
InitSpec == ConcurrentInit /\ [][OnceNext]_vars

MapInit ==
    /\ StreamIdle /\ ConfigIdle /\ OnceIdle
    /\ rpc = "map" /\ backendErr \in ErrorChains /\ response = NoResponse
    /\ req = NoRequest /\ messages = <<>> /\ genaiModel = <<>>
    /\ history = <<>> /\ turnsSent = <<>> /\ backendResp = Resp(<<>>)
    /\ BuildIdle

BuildInit ==
    /\ StreamIdle /\ ConfigIdle /\ OnceIdle
    /\ rpc = "build" /\ tools \in ToolLists /\ toolChoice \in ToolChoices
    /\ modelTools = <<>> /\ modelToolConfig = NoToolConfig
    /\ req = NoRequest /\ messages = <<>> /\ genaiModel = <<>>
    /\ history = <<>> /\ turnsSent = <<>> /\ backendErr = NoError /\ response = NoResponse
    /\ backendResp = Resp(<<>>)

\* setGenaiModelByOpenaiRequest on one request
BuildSpec == BuildInit /\ [][SetGenaiModel]_vars

\* handleGenerateContentError on one error, and on what it answered
MapSpec == MapInit /\ [][MapNext]_vars

--------------------------------------------------------------------------
(* What a streaming request is observed to have done *)

RECURSIVE RespsParts(_)
RespsParts(rs) == IF rs = <<>> THEN <<>> ELSE AllParts(Head(rs)) \o RespsParts(Tail(rs))

\* every part the backend has returned: increment, candidate, part order
BackendParts == RespsParts(backendResps)

\* the concatenation of the backend's text parts, in backend order
BackendText == PartsText(SelectSeq(BackendParts, LAMBDA p : p.t = "text"))

\* every response so far has one candidate and text parts only
TextOnlyStream ==
    \A n \in 1 .. Len(backendResps) :
        /\ Len(backendResps[n].cands) = 1
        /\ \A k \in 1 .. Len(backendResps[n].cands[1].parts) :
               backendResps[n].cands[1].parts[k].t = "text"

LastResp == backendResps[Len(backendResps)]

\* handleStreamIter has returned without an error of the iterator
EndedNormally == pc = "done" /\ iterEnd \in {"", "done"}

ErrorKinds == {"canceled", "rate_limit", "other"}

DoneCount(frames) == Len(SelectSeq(frames, LAMBDA f : f.k = "done"))
ErrorCount(log) == Len(SelectSeq(log, LAMBDA f : f.k = "error"))

--------------------------------------------------------------------------
(* Claims *)

\* C1: once the client is gone and the write path has returned, the producer
\* handleStreamIter is never left at a send on dataChan: nothing receives from
\* the unbuffered channel any more, so a producer at a send there is blocked
\* forever and never returns to close dataChan.
C1_ProducerNotBlockedAfterConsumerGone == ~(cpc = "returned" /\ pc = "send")

\* C2: when handleStreamIter has returned after end-of-sequence or a finish
\* reason, on a stream of single-candidate text-only responses, the
\* concatenation of delta.content over the chunks it sent, in order, is the
\* concatenation of the backend's text parts in backend order.
C2_StreamTextComplete ==
    (EndedNormally /\ TextOnlyStream) => LogText(sent) = BackendText

\* the case of C2 above the budget: a text-only stream longer than
\* sentenceLength has been streamed to its end
C2_Witness ==
    /\ EndedNormally /\ TextOnlyStream /\ iterEnd = "done"
    /\ StrLen(BackendText) > sentenceLength
    /\ charCount = sentenceLength
    /\ LogText(sent) = BackendText

\* C3: when the last response of a stream carries a finish reason, exactly one
\* chunk sent carries a non-null finish_reason, and it is "length" when the
\* backend's reason is max tokens (stated here for single-candidate text-only
\* streams).
C3_ExactlyOneFinishChunk ==
    (/\ EndedNormally /\ TextOnlyStream /\ backendResps # <<>>
     /\ LastResp.cands[1].fr # FinishReasonUnspecified)
    => /\ Len(FinishChunks(sent)) = 1
       /\ LastResp.cands[1].fr = FinishReasonMaxTokens
              => FinishChunks(sent)[1].choices[1].fr = "length"

\* the safety half of C4
C4_Safety ==
    /\ nCloses <= 1
    /\ closed => pc = "done"
    /\ DoneCount(written) <= 1
    /\ DoneCount(written) = 1 =>
          /\ closed
          /\ written[Len(written)] = DoneFrame
          /\ SubSeq(written, 1, Len(written) - 1) = sent

C5_ErrorChunkIsLast ==
    /\ ErrorCount(sent) <= 1
    /\ iterEnd \in ErrorKinds =>
          \/ /\ pc = "send" /\ pending.k = "error" /\ ErrorCount(sent) = 0
          \/ /\ pc \in {"exit", "done"}
             /\ ErrorCount(sent) = 1 /\ sent[Len(sent)].k = "error"
             /\ pc = "done" => closed
    /\ \A n \in 1 .. Len(written) - 1 :
          written[n].k = "error" => (n + 1 = Len(written) /\ written[n + 1] = DoneFrame)

\* the case of C5: an error in mid-stream, its chunk written after text and
\* followed by the terminal frame
C5_Witness ==
    /\ iterEnd = "other" /\ Len(written) > 2
    /\ written[Len(written) - 1].k = "error"
    /\ written[Len(written)] = DoneFrame

--------------------------------------------------------------------------
(* What a request through the handler is observed to have done *)

\* no two consecutive turns have the same role
Alternates(turns) == \A n \in 1 .. Len(turns) - 1 : turns[n].role # turns[n + 1].role

\* the converter has accepted the request's messages
Converted ==
    /\ rpc \in {"resolve", "generate", "responded", "streaming"}
    /\ req # NoRequest /\ ToGenaiMessages(req).err = ""

\* the request's model has been resolved
Resolved == Converted /\ genaiModel # <<>>

\* a non-streaming request has been answered after cs.SendMessage failed with
\* a vendor error of status 429
RateLimited ==
    /\ rpc = "responded" /\ ~req.stream
    /\ backendErr.kind = "google" /\ backendErr.code = StatusTooManyRequests

Returned == {"initialized", "rejected", "proceeds", "resolved"}

\* C6: a non-streaming request whose backend call failed with a vendor error
\* of status 429 is answered with status 429, type "rate_limit_error" and the
\* message "Rate limit exceeded", whatever the vendor's message text.
C6_RateLimitBody ==
    RateLimited =>
        /\ response.status = StatusTooManyRequests
        /\ response.type = "rate_limit_error"
        /\ response.message = <<"Rate limit exceeded">>

\* C7: the turns the converter produces for an accepted message list, and
\* the history plus live prompt handed to the backend from them, have no two
\* consecutive turns of the same role.
C7_TurnsAlternate ==
    /\ Converted => Alternates(messages)
    /\ Alternates(turnsSent)

\* C8: with model mapping enabled, a request naming an exact-match alias is
\* resolved to that alias's backend model even when the name also has the
\* prefix "gpt-4": gpt-4 to gemini-1.5-flash-002, gpt-4-turbo-preview to
\* gemini-1.5-pro-latest, gpt-4o to gemini-2.0-flash-exp; and
\* text-embedding-ada-002 converts to text-embedding-004.
C8_ExactBeforePrefix ==
    (USE_MODEL_MAPPING /\ Resolved) =>
        /\ req.model = GPT4 => genaiModel = Gemini1Dot5Flash
        /\ req.model = GPT4TurboPreview => genaiModel = Gemini1Dot5Pro
        /\ req.model = GPT4o => genaiModel = Gemini2FlashExp
        /\ ConvertModel(AdaEmbeddingV2) = TextEmbedding004

\* C9: when the fetch of the vendor's model list has failed, the cache holds
\* the default set once it is written and no request is rejected: the request
\* that ran the failed fetch goes on to be translated and sent.
C9_FailOpen ==
    /\ (fetchResult = "failed" /\ writeCount > 0) => GeminiModels = DefaultGeminiModels
    /\ \A p \in Procs : hpc[p] # "rejected"

\* C10: under any interleaving of concurrent callers of InitGeminiModels,
\* FetchGeminiModels is called at most once and GeminiModels is written at
\* most once, and a caller has returned from InitGeminiModels only when that
\* one fetch and write have been done and the initialization is complete.
C10_InitOnce ==
    /\ fetchCount <= 1
    /\ writeCount <= 1
    /\ \A p \in Procs :
          hpc[p] \in Returned => (onceDone /\ fetchCount = 1 /\ writeCount = 1 /\ onceM # p)

\* the case of C10: one caller has run the initialization and returned, while
\* another, which saw the flag unset, is still to take the mutex
C10_Witness ==
    \E p, q \in Procs :
        /\ p # q
        /\ hpc[p] \in Returned /\ writeCount = 1
        /\ hpc[q] = "doSlow"

\* C11: no handler reads GeminiModels, with no lock held, while the
\* initializing write of the list is in progress: every read holds the read
\* lock or comes after the completed initialization.
C11_NoRacyRead == racyReads = {}

--------------------------------------------------------------------------
(* What a non-streaming request is observed to have answered *)

\* cs.SendMessage has returned a response and it has been answered
Completed == rpc = "responded" /\ response.kind = "completion"

\* the parts of candidate i of the backend's response
CandParts(i) == backendResp.cands[i].parts

TextParts(parts) == SelectSeq(parts, LAMBDA part : part.t = "text")
FcParts(parts) == SelectSeq(parts, LAMBDA part : part.t = "fc")

\* the text of the first text part, the empty string when there is none
FirstText(parts) == IF TextParts(parts) = <<>> THEN EmptyStr ELSE TextParts(parts)[1].text

\* C12: in a non-streaming response, the content of the choice of a candidate
\* without a function-call part is the text of the candidate's first text part.
C12_ContentIsFirstText ==
    Completed =>
        \A i \in 1 .. Len(backendResp.cands) :
            FcParts(CandParts(i)) = <<>> =>
                response.choices[i].content = FirstText(CandParts(i))

\* C13: a non-streaming response has one choice per candidate, in order and
\* with the candidate's index; a choice has tool calls exactly when its
\* candidate has a function-call part, and then one per function-call part, in
\* order, with empty content and finish reason "tool_calls"; otherwise it has
\* no tool calls and its content is a text of the candidate (empty when the
\* candidate has none).
C13_ToolCallsIffFunctionCall ==
    Completed =>
        /\ Len(response.choices) = Len(backendResp.cands)
        /\ \A i \in 1 .. Len(backendResp.cands) :
              LET choice == response.choices[i]
                  fcs == FcParts(CandParts(i))
              IN /\ choice.index = i - 1
                 /\ (choice.toolCalls # <<>>) <=> (fcs # <<>>)
                 /\ Len(choice.toolCalls) = Len(fcs)
                 /\ \A n \in 1 .. Len(fcs) : choice.toolCalls[n].id = fcs[n].id
                 /\ fcs # <<>> => (choice.content = EmptyStr /\ choice.fr = "tool_calls")
                 /\ fcs = <<>> =>
                       choice.content \in
                           IF TextParts(CandParts(i)) = <<>> THEN {EmptyStr}
                           ELSE {TextParts(CandParts(i))[n].text :
                                     n \in 1 .. Len(TextParts(CandParts(i)))}

\* the case of C13: a candidate with two function calls around a text has
\* been answered
C13_Witness ==
    /\ Completed /\ Len(backendResp.cands) = 1
    /\ Len(FcParts(CandParts(1))) = 2 /\ Len(TextParts(CandParts(1))) = 1
    /\ Len(response.choices[1].toolCalls) = 2

\* the finish reason the mapping is to give
ExpectedFinishReason(reason) ==
    IF reason = FinishReasonMaxTokens THEN "length"
    ELSE IF reason \in {FinishReasonSafety, FinishReasonRecitation} THEN "content_filter"
    ELSE "stop"

\* C14: in a non-streaming response the finish reason of a choice is
\* "tool_calls" when its candidate has a function-call part, and otherwise
\* "length" for max tokens, "content_filter" for safety and recitation and
\* "stop" for every other backend value.
C14_FinishReasonMapping ==
    Completed =>
        \A i \in 1 .. Len(backendResp.cands) :
            response.choices[i].fr =
                IF FcParts(CandParts(i)) # <<>> THEN "tool_calls"
                ELSE ExpectedFinishReason(backendResp.cands[i].fr)

\* the case of C14: a candidate with a finish reason the proxy has no name for,
\* and one blocked for recitation, have been answered
C14_Witness ==
    /\ Completed /\ Len(backendResp.cands) >= 1
    /\ backendResp.cands[1].fr \in {FinishReasonUnknown, FinishReasonRecitation}
    /\ response.choices[1].fr \in {"stop", "content_filter"}

--------------------------------------------------------------------------
(* What the conversion of a request is observed to have done *)

\* the synthetic model turn that follows a system message
FillerTurn == Turn(genaiRoleModel, <<Text(" ")>>)

\* every message of the request has plain-string content
AllStrings == \A n \in 1 .. Len(req.messages) : req.messages[n].kind = "string"

\* the texts of the turns that are not fillers, in turn order
NonFillerTexts(turns) ==
    LET kept == SelectSeq(turns, LAMBDA turn : turn # FillerTurn)
    IN [n \in 1 .. Len(kept) |-> kept[n].parts[1].text]

\* the contents of the request's messages, in message order
MessageTexts == [n \in 1 .. Len(req.messages) |-> req.messages[n].parts[1].text]

\* C15: for a request whose messages all have plain-string content, the texts
\* of the turns the converter produced, fillers left out, are the contents of
\* the messages in message order.
C15_RoundTrip == (Converted /\ AllStrings) => NonFillerTexts(messages) = MessageTexts

\* the name is in the discovered-model list, or in the default set while the
\* list is empty
Listed(name) ==
    IF GeminiModels = <<>>
    THEN \E n \in 1 .. Len(DefaultGeminiModels) : DefaultGeminiModels[n] = name
    ELSE \E n \in 1 .. Len(GeminiModels) : GeminiModels[n] = name

\* the request's model has been resolved with mapping disabled and its name is
\* not listed
UnlistedResolved == ~USE_MODEL_MAPPING /\ Resolved /\ ~Listed(req.model)

Generated ==
    /\ rpc \in {"responded", "streaming"}
    /\ response.kind \in {"completion", "stream"} \/ backendErr # NoError

\* the request holds a system message and a user message, both plain strings
SystemThenUser ==
    /\ Len(req.messages) = 2 /\ AllStrings
    /\ req.messages[1].role = "system" /\ req.messages[2].role = "user"

\* C17: every system message of an accepted request has become a user turn
\* holding its content, immediately followed by the filler model turn; and a
\* request [system s, user u] gives exactly the three turns user s, filler,
\* user u, of which the first two are the history and the third is what is
\* sent as the live prompt.
C17_SystemTurn ==
    Converted =>
        /\ \A n \in 1 .. Len(req.messages) :
              req.messages[n].role = "system" =>
                  \E k \in 1 .. Len(messages) - 1 :
                      /\ messages[k] = Turn(genaiRoleUser, PromptOf(req.messages[n].parts))
                      /\ messages[k + 1] = FillerTurn
        /\ SystemThenUser =>
              /\ messages = <<Turn(genaiRoleUser, <<Text(MessageTexts[1])>>), FillerTurn,
                              Turn(genaiRoleUser, <<Text(MessageTexts[2])>>)>>
              /\ Generated =>
                    /\ history = SubSeq(messages, 1, 2)
                    /\ turnsSent = Append(history, messages[3])

\* the case of C17: the request [system, user] has been sent to the backend
C17_Witness ==
    /\ Converted /\ SystemThenUser /\ Completed
    /\ Len(turnsSent) = 3

\* a message of the request has content that cannot be converted
BadContent == \E n \in 1 .. Len(req.messages) :
                  \/ req.messages[n].kind = "invalid"
                  \/ \E k \in 1 .. Len(req.messages[n].parts) :
                         /\ req.messages[n].parts[k].type = "image_url"
                         /\ ~req.messages[n].parts[k].ok

\* C20: a request with a message whose content is neither a list of parts nor
\* a string, or with an image that cannot be resolved, is answered with a 4xx
\* error once conversion has run, and nothing of it is sent to the backend.
C20_BadContentRejected ==
    (req # NoRequest /\ BadContent /\ rpc # "convert") =>
        /\ rpc = "responded"
        /\ response.kind = "error" /\ response.status \in 400 .. 499
        /\ messages = <<>> /\ history = <<>> /\ turnsSent = <<>>
        /\ backendErr = NoError /\ backendResp = Resp(<<>>)

\* the case of C20: a request whose second message holds an image that cannot
\* be resolved, after a good first message, has been rejected
C20_Witness ==
    /\ rpc = "responded" /\ Len(req.messages) = 2
    /\ req.messages[1].kind = "string"
    /\ \E k \in 1 .. Len(req.messages[2].parts) :
           req.messages[2].parts[k].type = "image_url" /\ ~req.messages[2].parts[k].ok
    /\ response.status = StatusBadRequest

--------------------------------------------------------------------------
(* The error mapper *)

\* the chain of an error: the error and what Unwrap returns, outermost first
RECURSIVE Chain(_)
Chain(err) == IF err.cause = <<>> THEN <<err>> ELSE <<err>> \o Chain(err.cause[1])

\* the first error of the chain that is of the kind: its position, or 0
FirstOf(err, kind) ==
    LET c == Chain(err)
        at == { i \in 1 .. Len(c) : c[i].kind = kind }
    IN IF at = {} THEN 0 ELSE CHOOSE i \in at : \A j \in at : i <= j

Mapped == rpc \in {"mapped", "remapped"}

\* the response is the error e, unchanged, under the status its Code holds
PassedThrough(e) ==
    /\ response.kind = "error"
    /\ response.code = e.code /\ response.message = e.message /\ response.type = e.type
    /\ e.code # NoIntCode => response.status = e.code

\* C18: an outward error, bare or under a wrap, is answered with the status
\* its Code holds and with itself as the body, and mapping that body again
\* answers the same status and body.
C18_OutwardIdempotent ==
    /\ [](Mapped /\ FirstOf(backendErr, "openai") > 0
            => PassedThrough(Chain(backendErr)[FirstOf(backendErr, "openai")]))
    /\ [][rpc = "mapped" /\ FirstOf(backendErr, "openai") > 0 => response' = response]_vars

C18_Witness ==
    /\ rpc = "remapped" /\ response.status = StatusTooManyRequests
    /\ response.type = "" /\ backendErr = BodyOf(response)

\* C19: every error gets one response; an outward error anywhere in the chain
\* decides it, also when a vendor error is in the chain; otherwise a vendor
\* error with a status other than 429 is answered with that status, its
\* message and type "server_error"; an error that is neither is answered 500,
\* type "server_error", with the text of the error as the message.
C19_ClassifiedInOrder ==
    Mapped =>
      LET c == Chain(backendErr)
          o == FirstOf(backendErr, "openai")
          g == FirstOf(backendErr, "google")
      IN /\ response.kind = "error"
         /\ response.status \in ErrorCodes \cup {503}
         /\ o > 0 => /\ response.message = c[o].message /\ response.type = c[o].type
                      /\ response.code = c[o].code
         /\ (o = 0 /\ g > 0 /\ c[g].code # StatusTooManyRequests)
              => /\ response.status = c[g].code /\ response.code = c[g].code
                 /\ response.message = c[g].message /\ response.type = "server_error"
         /\ (o = 0 /\ g = 0)
              => /\ response.status = StatusInternalServerError
                 /\ response.code = StatusInternalServerError
                 /\ response.type = "server_error"
                 /\ response.message = ErrorText(backendErr)

\* a vendor error that unwraps to an outward one has been answered
C19_Witness ==
    /\ rpc = "mapped"
    /\ FirstOf(backendErr, "google") > 0
    /\ FirstOf(backendErr, "openai") > FirstOf(backendErr, "google")
    /\ Chain(backendErr)[FirstOf(backendErr, "google")].code = 503
    /\ response.status = StatusBadRequest

--------------------------------------------------------------------------
(* The tool configuration *)

Built == rpc = "built"

\* C21: a request with at least one tool gets a tool configuration whose
\* mode is none, auto, or any with exactly the one named function allowed,
\* according to its tool choice; a request without tools gets no tool list
\* and no tool configuration.
C21_ToolConfigMode ==
    Built =>
      IF Len(tools) > 0
      THEN /\ modelToolConfig.set
           /\ \/ modelToolConfig.mode = FunctionCallingNone /\ toolChoice = ChoiceString("none")
              \/ modelToolConfig.mode = FunctionCallingAuto /\ toolChoice = ChoiceString("auto")
              \/ /\ modelToolConfig.mode = FunctionCallingAny
                 /\ toolChoice.t = "function"
                 /\ modelToolConfig.allowed = <<toolChoice.v>>
      ELSE modelTools = <<>> /\ ~modelToolConfig.set

--------------------------------------------------------------------------
(* How a stream's text is cut into chunks *)

\* the text parts of the responses, in backend order, each with whether its
\* candidate carries a finish reason above stop
RECURSIVE CandsTextParts(_, _)
CandsTextParts(cands, c) ==
    IF c > Len(cands) THEN <<>>
    ELSE LET texts == SelectSeq(cands[c].parts, LAMBDA p : p.t = "text")
         IN [k \in 1 .. Len(texts) |->
               [lo |-> texts[k].text[1].lo, hi |-> texts[k].text[1].hi,
                final |-> cands[c].fr > FinishReasonStop]]
            \o CandsTextParts(cands, c + 1)

RECURSIVE RespsTextParts(_)
RespsTextParts(rs) ==
    IF rs = <<>> THEN <<>>
    ELSE CandsTextParts(Head(rs).cands, 1) \o RespsTextParts(Tail(rs))

\* Where the budget cuts each text part: of the part [lo, hi) the characters
\* [lo, cut) fall inside the budget and [cut, hi) after it, count being the
\* characters of the earlier parts inside the budget.  With buffering, a part
\* of a candidate with a finish reason takes nothing from the budget.
RECURSIVE Layout(_, _, _)
Layout(parts, count, buffering) ==
    IF parts = <<>> THEN <<>>
    ELSE LET p == Head(parts)
             buffered == buffering /\ p.final
             left == sentenceLength - count
             n == IF buffered THEN 0
                  ELSE IF p.hi - p.lo <= left THEN p.hi - p.lo ELSE left
         IN <<[lo |-> p.lo, cut |-> p.lo + n, hi |-> p.hi, buffered |-> buffered]>>
            \o Layout(Tail(parts), count + n, buffering)

\* the text chunks sent so far have the form the layout L prescribes: a part's
\* characters inside the budget are each a chunk of their own, and its
\* characters after the budget are one chunk
FollowsLayout(L) ==
    LET streamed == { i \in 1 .. Len(L) : ~L[i].buffered }
        buffered == { i \in 1 .. Len(L) : L[i].buffered }
    IN /\ \A n \in 1 .. Len(sent) :
            sent[n].k \in {"chars", "text"} =>
              LET c == sent[n].choices[1].content
              IN \/ \E i \in buffered : L[i].lo <= c[1].lo /\ c[1].lo < L[i].hi
                 \/ /\ sent[n].k = "text"
                    /\ \E i \in streamed : c = Str(L[i].cut, L[i].hi)
                 \/ /\ sent[n].k = "chars"
                    /\ \A i \in streamed :
                          ~(/\ L[i].hi - L[i].cut >= 2
                            /\ c[1].lo < L[i].hi /\ L[i].cut < c[Len(c)].hi)
       /\ EndedNormally =>
            \A i \in streamed :
               /\ L[i].cut > L[i].lo =>
                    \E n \in 1 .. Len(sent) :
                       /\ sent[n].k = "chars"
                       /\ sent[n].choices[1].content[1].lo <= L[i].lo
                       /\ L[i].cut <= sent[n].choices[1].content[1].hi
               /\ L[i].hi - L[i].cut >= 2 =>
                    \E n \in 1 .. Len(sent) : sent[n] = TextChunk(Str(L[i].cut, L[i].hi))

\* C22 as stated: the character counter never passes the budget of 1000 and
\* is shared by all increments; every text part is sent one character a
\* chunk while the budget lasts, and the rest of the part, like every later
\* part, as one chunk.
C22_EveryPartByCharacter ==
    /\ charCount <= sentenceLength
    /\ FollowsLayout(Layout(RespsTextParts(backendResps), 0, FALSE))

\* C22 for the parts that are streamed: the character counter never passes
\* the budget and is shared by all increments; every text part of a candidate
\* whose finish reason is not above stop is sent one character a chunk while
\* the budget lasts, and the rest of the part, like every later such part, as
\* one chunk; the text parts of a candidate with a finish reason above stop
\* are buffered and take nothing from the budget.
C22_StreamedPartsByCharacter ==
    /\ charCount <= sentenceLength
    /\ FollowsLayout(Layout(RespsTextParts(backendResps), 0, TRUE))

\* the budget ran out inside the second increment: the rest of its text part
\* went out as one chunk
C22_Witness ==
    /\ EndedNormally /\ Len(backendResps) = 2 /\ charCount = sentenceLength
    /\ \E n \in 1 .. Len(sent) :
          sent[n].k = "text" /\ StrLen(sent[n].choices[1].content) = LongLen - 1
    /\ \A i \in 1 .. 2 : \A c \in 1 .. Len(backendResps[i].cands) :
          backendResps[i].cands[c].fr <= FinishReasonStop

--------------------------------------------------------------------------
(* The end of a stream *)

\* the chunk e is the text buf sent as one block.  (A block of one character
\* is logged with the one-character chunks before it.)
IsBlockOf(e, buf) ==
    IF StrLen(buf) >= 2 THEN e = TextChunk(buf)
    ELSE /\ e.k = "chars"
         /\ e.choices[1].content[Len(e.choices[1].content)].hi = buf[Len(buf)].hi

\* C23: when a finish-reason chunk is sent, the text buffered until then has
\* been sent as one block chunk immediately before it; the finish-reason
\* chunk carries no content; and it is the last chunk sent, so that no text
\* chunk follows it.  A stream that ends without an error of the iterator
\* has sent its buffered text, as one block, as its last chunk or as the one
\* before the finish-reason chunk.
C23_BufferFlushedBeforeFinish ==
    /\ \A n \in 1 .. Len(sent) :
          sent[n].k = "finish" =>
             /\ n = Len(sent) /\ pc \in {"exit", "done"}
             /\ ChoicesText(sent[n].choices) = EmptyStr
             /\ textBuffer # EmptyStr => (n > 1 /\ IsBlockOf(sent[n - 1], textBuffer))
    /\ (pc = "finishChunk" /\ textBuffer # EmptyStr) =>
          (sent # <<>> /\ IsBlockOf(sent[Len(sent)], textBuffer))
    /\ (EndedNormally /\ textBuffer # EmptyStr) =>
          \E n \in 1 .. Len(sent) :
             /\ IsBlockOf(sent[n], textBuffer)
             /\ n = Len(sent) \/ (n = Len(sent) - 1 /\ sent[Len(sent)].k = "finish")

\* two buffered text parts have left as one block, after streamed text and
\* before the finish-reason chunk
C23_Witness ==
    /\ pc = "done" /\ Len(sent) >= 3
    /\ sent[Len(sent)].k = "finish"
    /\ StrLen(textBuffer) = 3 /\ sent[Len(sent) - 1] = TextChunk(textBuffer)
    /\ sent[1].k = "chars"

--------------------------------------------------------------------------
(* Function calls in a stream *)

\* C24: a chunk sent for a function-call part holds the tool-call payload and
\* nothing else: one choice that carries the tool calls, and no choice that
\* carries text, also when the increment holds text parts next to the call.
C24_ToolChunkHasNoText ==
    \A n \in 1 .. Len(sent) :
       sent[n].k = "tool" =>
          /\ Len(sent[n].choices) = 1
          /\ sent[n].choices[1].toolCalls # <<>>
          /\ ChoicesText(sent[n].choices) = EmptyStr

\* the tool-call entries of a log that carry the function call id
RECURSIVE ToolCallEntries(_, _)
ToolCallEntries(log, id) ==
    IF log = <<>> THEN 0
    ELSE LET calls == Head(log).choices[Len(Head(log).choices)].toolCalls
         IN (IF Head(log).k = "tool"
             THEN Len(SelectSeq(calls, LAMBDA t : t.id = id)) ELSE 0)
            + ToolCallEntries(Tail(log), id)

\* C28: over all the chunks sent, a function-call part of the backend is
\* never in more than one tool-call entry, and is in exactly one once the
\* stream has ended without an error of the iterator.
C28_ToolCallOnce ==
    \A id \in 0 .. nextFc - 1 :
       /\ ToolCallEntries(sent, id) <= 1
       /\ EndedNormally => ToolCallEntries(sent, id) = 1

--------------------------------------------------------------------------
(* The order of a stream *)

\* the log w holds the first chunks of the log s, in the order of s
IsLogPrefix(w, s) ==
    /\ Len(w) <= Len(s)
    /\ \A n \in 1 .. Len(w) - 1 : w[n] = s[n]
    /\ w # <<>> =>
          LET a == w[Len(w)]
              b == s[Len(w)]
          IN \/ a = b
             \/ /\ a.k = "chars" /\ b.k = "chars"
                /\ a.choices[1].content[1].lo = b.choices[1].content[1].lo
                /\ a.choices[1].content[1].hi <= b.choices[1].content[1].hi

\* the frames written, the terminal frame left out
WrittenChunks == SelectSeq(written, LAMBDA f : f.k # "done")

\* the text of the text chunks sent, in the order sent
SentText == LogText(SelectSeq(sent, LAMBDA c : c.k \in {"chars", "text"}))

\* the characters of s are in backend order
InBackendOrder(s) == \A k \in 1 .. Len(s) - 1 : s[k].hi <= s[k + 1].lo

\* the write path receives the chunks in the order they were sent
C25_WrittenInSentOrder == IsLogPrefix(WrittenChunks, sent)

\* C25: the write path receives the chunks in the order handleStreamIter sent
\* them, and the text of the text chunks is in backend order: increment
\* order, then candidate order and part order inside an increment.
C25_GenerationOrder ==
    /\ C25_WrittenInSentOrder
    /\ InBackendOrder(SentText)

--------------------------------------------------------------------------
(* The live prompt *)

FinalMessage == req.messages[Len(req.messages)]

\* C26: when a request whose final message has the role user, system or
\* assistant has been sent to the backend, the live prompt is the content of
\* that final message, no turn of the history holds that content, and the
\* history is empty or ends with a model turn.
C26_LivePromptIsFinalMessage ==
    (Generated /\ FinalMessage.role \in {"user", "system", "assistant"}) =>
       /\ turnsSent[Len(turnsSent)].parts = PromptOf(FinalMessage.parts)
       /\ \A k \in 1 .. Len(history) : history[k].parts # PromptOf(FinalMessage.parts)
       /\ history = <<>> \/ history[Len(history)].role = genaiRoleModel

\* C27: a request that has passed binding and conversion has at least one
\* backend turn, so that the last turn, which GenerateContent and
\* GenerateStreamContent index, exists, and the request is never answered by
\* the recovery of a panic.
C27_LastTurnDefined ==
    /\ Converted => LastMessageDefined(messages)
    /\ response # PanicResponse

--------------------------------------------------------------------------
(* The model field of a response *)

\* the aliases ModelListHandler lists while mapping is enabled
AdvertisedAliases ==
    {GPT3Dot5Turbo, GPT4, GPT4TurboPreview, GPT4VisionPreview, AdaEmbeddingV2, GPT4o}

\* C29: with model mapping enabled, GetMappedModel gives back the alias the
\* request named when applied to the backend model the alias resolved to, and
\* the model field of the completion is that alias.
C29_ModelFieldIsAlias ==
    (USE_MODEL_MAPPING /\ Resolved /\ req.model \in AdvertisedAliases) =>
       /\ GetMappedModel(genaiModel) = req.model
       /\ Completed => response.model = req.model

--------------------------------------------------------------------------
(* The first successful fetch *)

\* C30: the list is fixed by the first fetch that succeeds.  A call of
\* InitGeminiModels that has returned while no fetch has succeeded has made a
\* fetch of its own and returned its error, the list holding the default set
\* meanwhile; and once a fetch has succeeded the list holds the fetched
\* models and is not written again.
C30_FirstSuccessfulFetchWins ==
    /\ \A p \in Procs :
          (hpc[p] \in Returned /\ GeminiModels # FetchedGeminiModels) =>
              (initErr[p] # "" /\ GeminiModels = DefaultGeminiModels)
    /\ (fetchResult = "ok" /\ writeCount > 0) =>
          (GeminiModels = FetchedGeminiModels /\ writeCount = 1)

====
